---- MODULE Spec2Model ----
(***************************************************************************)
(* Order-monitoring scheduler of src/app: the per-user order queue         *)
(* (UserOrderQueue), the per-worker scheduler (UserOrderManager), the      *)
(* order processor (OrderProcessor) and the parts of the relational store  *)
(* and of the Redis cache they read and write.                             *)
(*                                                                         *)
(* Every worker process owns its own UserOrderManager and OrderProcessor   *)
(* (MonitorWorker.__init__); the store and the cache are shared.           *)
(***************************************************************************)
EXTENDS Integers, Sequences, FiniteSets, TLC

\* ------------------------------------------------------------------ bounds
NumWorkers == 2
NumUsers == 2
NumOrders == 5
\* the rows create_order adds to orders
MaxCreated == 1
MaxPriority == 1
MaxCalls == 1
MaxLog == 2
\* the updates of rows of orders by other clients of the store a composition
\* follows
MaxOrderWrites == 1
\* the threads of a process that call refresh_active_users on its manager
NumThreads == 1

\* ------------------------------------------------------- program constants
\* UserOrderQueue.max_concurrent
MaxConcurrent == 3
\* config.MONITOR_CONFIG['batch_size']
BatchSize == 100
\* quantity of every order row of the model (orders.quantity)
Quantity == 4

\* The event bus: events emitted, the queue's maxsize, the worker threads
\* (max_workers), the callables that can be registered and the number of
\* registrations made.
NumEvents == 2
QueueSize == 1
NumBusWorkers == 1
NumHandlers == 2
\* the calls of register_handler
MaxRegs == 2
\* the calls of start() that start worker threads
MaxStarts == 1
\* the calls of EventDispatcher.dispatch
MaxDispatch == 2

Workers == 1..NumWorkers
Users == 1..NumUsers
\* The callers of a manager's refresh: 0 is the worker's own loop (inside
\* get_next_user_order), the others are threads that share the manager.
ManagerThreads == 1..NumThreads
DispatchIds == 1..MaxDispatch
Callers == 0..NumThreads
\* The ids of the rows of orders at the start, and those the table can hold
\* once create_order has added its rows (AUTO_INCREMENT: the next id).
InitialOrderIds == 1..NumOrders
OrderIds == 1..(NumOrders + MaxCreated)

\* Absent key / absent value (Python None, Redis nil).
None == 0

EventIds == 1..NumEvents
BusWorkers == 1..NumBusWorkers
Handlers == 1..NumHandlers
\* Two of the members of EventType; event e has type TypeOf(e).
EventTypes == {"order_update", "order_fill"}
TypeOf(e) == IF e % 2 = 1 THEN "order_update" ELSE "order_fill"

\* config.ORDER_STATUS, config.USER_STATUS, config.GROUP_STATUS
PENDING == "PENDING"
PARTIAL == "PARTIAL"
FILLED == "FILLED"
CANCELLED == "CANCELLED"
USER_DISABLED == 0
USER_ENABLED == 1
GROUP_CLOSED == 0
GROUP_OPEN == 1

\* orders.user_id of the rows at the start: user 1 owns the first
\* MaxConcurrent + 1 orders, the other users share the rest.
InitialOwner(o) ==
    IF o <= MaxConcurrent + 1 \/ NumUsers = 1 THEN 1
    ELSE 2 + ((o - MaxConcurrent - 2) % (NumUsers - 1))

\* orders.created_at: fixed per row, with ties and not in id order among the
\* rows at the start; a row create_order adds is younger than every row
\* before it.
CreatedAt(o) == IF o <= NumOrders THEN ((NumOrders - o) \div 2) + 1 ELSE NumOrders + o

VARIABLES
    \* ---- relational store
    orders,             \* orders[o] = [status, filled, user_id] of row o, NoRow when
                        \* the table has no row o
    prio,               \* orders.priority, fixed after Init
    users,              \* users.status
    groups,             \* order_groups.status
    status_log,         \* order_status_logs rows, in insertion order
    \* ---- Redis cache
    user_lock,          \* user:lock:<u> -> worker id, None when the key is absent
    order_processing,   \* order:processing:<o> -> worker id, None when absent
    user_status_cache,  \* user:status:<u> -> status, -1 when absent
    group_status_cache, \* group:status:<g> -> status, -1 when absent
    \* ---- UserOrderManager of each worker
    active_users,       \* active_users[w]: set of user ids
    user_queues,        \* user_queues[w]: dict user id -> UserOrderQueue
    last_user_refresh,  \* 0 until the first refresh_active_users, then 1
    user_priority_scores, \* per user the order count and priority sum of the score
    refresh_call,       \* refresh_call[w][t]: the refresh_active_users call of caller t
                        \* on the manager of w: its position and the query's answer
    poll,               \* poll[w]: the locals of the get_next_user_order call of
                        \* worker w
    \* ---- OrderProcessor / caller of each worker
    pc,                 \* position of worker w inside process_order
    cur,                \* the order_data worker w is processing
    hand,               \* orders handed to worker w and not yet processed
    counters,           \* processed_count, error_count
    \* ---- observation of the calls
    ret,                \* the last call made and what it returned
    taken,              \* per queue: the last two ids get_next_order returned
                        \* since the queue's last successful refresh
    \* ---- EventHandler (framework/monitoring/event_handler.py)
    running,            \* EventHandler.running
    event_queue,        \* the items of queue.Queue(maxsize = queue_size), oldest first
    unfinished_tasks,   \* the queue's count of items put and not yet task_done
    event_handlers,     \* event type -> list of handlers, <<>> when the key is absent
    executor_shutdown,  \* the ThreadPoolExecutor was shut down
    bus,                \* bus[t]: position and locals of worker thread t
    emitted,            \* per event: "new", or what its emit_event call returned and why
    invoked,            \* invoked[e][h]: how often handler h was called with event e
    outcome,            \* per event: how _process_event ended for it
    stop_pc,            \* position of the caller of stop()
    host_calls,         \* the calls of register_handler made and the calls of start()
                        \* that started worker threads
    \* ---- StatusChangeDetector (app/status_monitor.py)
    last_snapshot,      \* <<>> (None) or <<the StatusSnapshot seen last>>
    changes,            \* the list the last detect_changes call returned
    \* ---- StatusMonitor (app/status_monitor.py)
    monitor_snapshot,   \* <<>>, or <<the dict user_statuses>> while _take_snapshot
                        \* is between its two queries
    \* ---- Redis lists
    order_queue,        \* the list order:queue, leftmost element first
    \* ---- RedisManager
    redis_client,       \* RedisManager.client: "none" (None), "connected", or "down"
                        \* (a client whose commands raise ConnectionError)
    events_queue,       \* the list events, leftmost element first
    \* ---- EventDispatcher (app/event_handler.py)
    handler_calls,      \* the events dispatch was called with and what it returned, in
                        \* the order of the returns
    dispatch_call,      \* dispatch_call[k]: the k-th dispatch call: its event, the
                        \* position of the handler in the executor and its locals,
                        \* whether dispatch has returned
    \* ---- StatusController and StatusMonitor.force_refresh_cache
    controller,         \* the update_user_status / update_group_status call in progress
    force_refresh,      \* the force_refresh_cache call in progress
    \* ---- observation of the scheduler
    outstanding,        \* outstanding[w]: the order ids the manager of worker w handed out
                        \* and mark_order_completed was not called for since
    order_writes,       \* the writes other clients of the store made to orders so far,
                        \* counted up to MaxOrderWrites
    \* ---- observation of the status hints
    hint_by,            \* hint_by[kind][id]: the dispatch call whose handler's SET of its
                        \* event's new status was the last command that wrote the key
                        \* user:status:<id> (group:status:<id>); 0 when no command wrote
                        \* the key or the last was another one
    monitor_todo        \* StatusMonitor._process_changes: the changes still to handle

storeVars == <<orders, prio, users, groups, status_log>>
cacheVars == <<user_lock, order_processing, user_status_cache, group_status_cache>>
callVars == <<refresh_call, poll>>
schedVars == <<active_users, last_user_refresh, user_priority_scores, callVars>>
mgrVars == <<schedVars, user_queues>>
procVars == <<pc, cur, hand, counters>>
coreVars == <<storeVars, cacheVars, mgrVars, procVars, ret, taken>>
busVars == <<running, event_queue, unfinished_tasks, event_handlers, executor_shutdown,
             bus, emitted, invoked, outcome, stop_pc, host_calls>>
detVars == <<last_snapshot, changes, monitor_snapshot, monitor_todo>>
redisVars == <<order_queue, redis_client>>
ctlVars == <<controller, force_refresh>>
dispVars == <<events_queue, handler_calls, dispatch_call, ctlVars>>
histVars == <<outstanding, order_writes, hint_by>>
extVars == <<busVars, detVars, redisVars, dispVars, histVars>>
vars == <<coreVars, extVars>>

\* ------------------------------------------------------- decimal numbers
\* orders.filled_quantity is a float.  The model keeps the decimal number
\* n / 10^e a value stands for, exactly: a product with a tenth adds a
\* decimal place instead of dropping one.  n has no trailing zero unless
\* e = 0, so that equal numbers are equal records.  The rounding of the
\* binary floating-point arithmetic is not followed.
RECURSIVE Pow10(_)
Pow10(e) == IF e = 0 THEN 1 ELSE 10 * Pow10(e - 1)

RECURSIVE Dec(_, _)
Dec(n, e) == IF e > 0 /\ n % 10 = 0 THEN Dec(n \div 10, e - 1) ELSE [n |-> n, e |-> e]

Whole(x) == Dec(x, 0)

DecAdd(a, b) ==
    LET e == IF a.e >= b.e THEN a.e ELSE b.e
    IN  Dec(a.n * Pow10(e - a.e) + b.n * Pow10(e - b.e), e)

DecSub(a, b) ==
    LET e == IF a.e >= b.e THEN a.e ELSE b.e
    IN  Dec(a.n * Pow10(e - a.e) - b.n * Pow10(e - b.e), e)

\* x * (k / 10), k the tenths of a draw of random.uniform
DecTenths(x, k) == Dec(x.n * k, x.e + 1)

DecLE(a, b) == a.n * Pow10(b.e) <= b.n * Pow10(a.e)

\* ------------------------------------------------------------- store rows
\* No row with this id.
NoRow == [status |-> "none", filled |-> Whole(0), user_id |-> None]

\* orders.user_id
OwnerOf(o) == orders[o].user_id

OrdersOf(u) == {o \in OrderIds : OwnerOf(o) = u}

\* orders.group_id: every user has one order group, numbered like the user.
GroupOf(o) == OwnerOf(o)

\* A command of RedisManager that writes (set, delete, lpush): the keys
\* afterwards.  On a client that is None or whose commands raise, the
\* exception is caught inside RedisManager and nothing is written.
RedisWrite(client, old, written) == IF client = "connected" THEN written ELSE old

\* hint_by after a SET of the key of `id` was issued: by the handler of
\* dispatch call k for its event's new status, or (k = 0) by any other
\* statement.  A command the client did not execute wrote nothing.
HintWrite(client, kind, id, k) ==
    IF client = "connected" THEN [hint_by EXCEPT ![kind][id] = k] ELSE hint_by

\* RedisManager.get of a status key holding `value` (-1: no key): the default
\* None (-1) when the key is absent and when the client raised.
RedisGet(client, value) == IF client = "connected" THEN value ELSE -1

\* The dict a SELECT * FROM orders returns for row o.
OrderRow(o) == [id |-> o, status |-> orders[o].status, filled |-> orders[o].filled]

RECURSIVE Perms(_)
Perms(S) ==
    IF S = {} THEN {<<>>}
    ELSE UNION {{<<x>> \o p : p \in Perms(S \ {x})} : x \in S}

\* ORDER BY priority DESC, created_at ASC
DbOrderLE(a, b) ==
    \/ prio[a] > prio[b]
    \/ prio[a] = prio[b] /\ CreatedAt(a) <= CreatedAt(b)

\* The orderings of the rows S the ORDER BY clause allows: a row that no other
\* row must precede comes first, then the rest likewise.
RECURSIVE OrderedBy(_)
OrderedBy(S) ==
    IF S = {} THEN {<<>>}
    ELSE UNION {{<<x>> \o p : p \in OrderedBy(S \ {x})}
                : x \in {y \in S : \A z \in S : DbOrderLE(y, z)}}

\* OrderDAO.get_user_orders(user_id, status=[PENDING, PARTIAL]): the rows of
\* the user in one of the statuses, ordered by the ORDER BY clause; rows that
\* tie on it come in any order.
GetUserOrders(u) ==
    LET match == {o \in OrderIds : OwnerOf(o) = u /\ orders[o].status \in {PENDING, PARTIAL}}
    IN  {[i \in 1..Len(p) |-> OrderRow(p[i])] : p \in OrderedBy(match)}

\* ------------------------------------------------------- UserOrderQueue
\* UserOrderQueue.__init__
NewQueue == [pending |-> <<>>, processing |-> {}, last_fetch_time |-> 0]

\* need_refresh: time.time() - last_fetch_time > fetch_interval.  A queue that
\* was never fetched (last_fetch_time = 0) is always due; afterwards it
\* depends on the time that passed, the input `elapsed`.
NeedRefresh(q, elapsed) == IF q.last_fetch_time = 0 THEN TRUE ELSE elapsed

\* key=lambda x: (-x.get('priority', 0), x['created_at']), compared as tuples
SortKeyLE_AscPriority(a, b) ==
    \/ prio[a.id] < prio[b.id]
    \/ prio[a.id] = prio[b.id] /\ CreatedAt(a.id) <= CreatedAt(b.id)

SortKeyLE(a, b) ==
    \/ -prio[a.id] < -prio[b.id]
    \/ -prio[a.id] = -prio[b.id] /\ CreatedAt(a.id) <= CreatedAt(b.id)

\* list.sort is stable: x goes behind every element whose key is <= its key.
InsertRow(s, x) ==
    LET k == Cardinality({i \in 1..Len(s) : SortKeyLE(s[i], x)})
    IN  SubSeq(s, 1, k) \o <<x>> \o SubSeq(s, k + 1, Len(s))

RECURSIVE SortRows(_)
SortRows(rows) ==
    IF rows = <<>> THEN <<>>
    ELSE InsertRow(SortRows(SubSeq(rows, 1, Len(rows) - 1)), rows[Len(rows)])

\* The body of refresh_orders once the store has answered with user_orders.
RefreshOrders_NoFilter(q, user_orders) ==
    [q EXCEPT !.pending = SortRows(user_orders), !.last_fetch_time = 1]

\* A variant that clears the pending sequence before the query.
RefreshOrdersRaised_Cleared(q) == [q EXCEPT !.pending = <<>>]

\* refresh_orders when get_user_orders raises: the except clause is reached
\* before pending_orders or last_fetch_time is touched.
RefreshOrdersRaised(q) == q

RefreshOrders(q, user_orders) ==
    LET new_orders == SelectSeq(user_orders, LAMBDA r : r.id \notin q.processing)
    IN  [q EXCEPT !.pending = SortRows(new_orders), !.last_fetch_time = 1]

\* get_next_order: the queue afterwards and the order returned (None: nothing).
GetNextOrder_NoLimit(q) ==
    IF q.pending # <<>>
    THEN [queue |-> [q EXCEPT !.pending = Tail(q.pending),
                              !.processing = q.processing \cup {Head(q.pending).id}],
          order |-> <<Head(q.pending)>>]
    ELSE [queue |-> q, order |-> <<>>]

GetNextOrder_KeepPending(q) ==
    IF Cardinality(q.processing) >= MaxConcurrent THEN [queue |-> q, order |-> <<>>]
    ELSE IF q.pending # <<>>
    THEN [queue |-> [q EXCEPT !.processing = q.processing \cup {Head(q.pending).id}],
          order |-> <<Head(q.pending)>>]
    ELSE [queue |-> q, order |-> <<>>]

GetNextOrder(q) ==
    IF Cardinality(q.processing) >= MaxConcurrent THEN [queue |-> q, order |-> <<>>]
    ELSE IF q.pending # <<>>
    THEN [queue |-> [q EXCEPT !.pending = Tail(q.pending),
                              !.processing = q.processing \cup {Head(q.pending).id}],
          order |-> <<Head(q.pending)>>]
    ELSE [queue |-> q, order |-> <<>>]

\* A variant that empties the in-flight set.
MarkOrderCompleted_Clear(q, order_id) == [q EXCEPT !.processing = {}]

\* mark_order_completed: set.discard
MarkOrderCompleted(q, order_id) == [q EXCEPT !.processing = q.processing \ {order_id}]

\* ------------------------------------------------------------ observation
\* ret[w]: the last call worker w made: the operation, its user and order
\* arguments, what it returned (ok: the boolean or "an order was returned",
\* n: the number returned; for process_order the number of keys the DEL of
\* its finally clause removed) and whether it raised.
NoRet == [op |-> "none", u |-> 0, o |-> 0, ok |-> FALSE, n |-> 0, raised |-> FALSE]

Returned(w, op, u, o, ok, n, raised) ==
    [ret EXCEPT ![w] = [op |-> op, u |-> u, o |-> o, ok |-> ok, n |-> n, raised |-> raised]]

\* The ids get_next_order returned on queue (w, u): the last two are kept.
NoteTaken(w, u, o) ==
    LET t == taken[w][u]
    IN  [taken EXCEPT ![w][u] = IF Len(t) = 2 THEN <<t[2], o>> ELSE Append(t, o)]

HasQueue(w, u) == u \in DOMAIN user_queues[w]

\* self.lock of the manager of worker w is held: a caller of
\* refresh_active_users is inside the block "with self.lock".
ManagerLocked(w) == \E t \in DOMAIN refresh_call[w] : refresh_call[w][t].pc = "locked"
SetQueue(w, u, q) == [user_queues EXCEPT ![w] = (u :> q) @@ @]

\* outstanding after the manager of worker w handed out the orders in `os`.
HandedOut(w, os) ==
    [outstanding EXCEPT ![w] = @ \cup {os[i].id : i \in 1..Len(os)}]

\* refresh_call[w][t] while caller t is not inside refresh_active_users.
NoRefresh == [pc |-> "none", answer |-> [u \in Users |-> [count |-> 0, sum |-> 0]],
              rows |-> <<>>]

\* poll[w] while worker w is not inside get_next_user_order.  list: the list
\* sorted() made of active_users; keys: the scores read for its first
\* elements; users: sorted_users from the user of the current turn on; queue:
\* <<>> while the local user_queue is the object the registry holds, <<q>>
\* once a refresh deleted that object from the registry.
NoPoll == [list |-> <<>>, keys |-> <<>>, users |-> <<>>, queue |-> <<>>]

\* controller while no update_user_status / update_group_status call is in
\* progress; `last` keeps what the last call returned.
NoController == [pc |-> "none", kind |-> "user", id |-> None, status |-> 0, last |-> "none"]

\* dispatch_call[k] before the k-th dispatch call is made; `groups` are the
\* rows of get_user_active_groups the handler has still to go through,
\* `result` is the value handle is about to return once its last statement
\* is done.
NoDispatch == [pc |-> "none", type |-> "none", id |-> None, new_status |-> 0,
               groups |-> <<>>, result |-> FALSE, returned |-> FALSE]

\* force_refresh while no force_refresh_cache call is in progress.
NoForce == [pc |-> "none", rows |-> [i \in Users |-> 0], todo |-> <<>>]

\* cur[w] while worker w is not inside process_order.
NoCur == [id |-> None, status |-> PENDING, filled |-> Whole(0), seen |-> 0,
          new_status |-> PENDING, new_filled |-> Whole(0), result |-> FALSE, err |-> FALSE]

\* ------------------------------------------------------------------- Init
\* EventHandler.__init__: not running, empty queue, no handler registered, no
\* worker thread; no event emitted yet.
NoBus == [pc |-> "off", event |-> None, idx |-> 0, stale |-> FALSE, futures |-> <<>>]

InitBus ==
    /\ running = FALSE
    /\ event_queue = <<>>
    /\ unfinished_tasks = 0
    /\ event_handlers = [ty \in EventTypes |-> <<>>]
    /\ executor_shutdown = FALSE
    /\ bus = [t \in BusWorkers |-> NoBus]
    /\ emitted = [e \in EventIds |-> "new"]
    /\ invoked = [e \in EventIds |-> [h \in Handlers |-> 0]]
    /\ outcome = [e \in EventIds |-> "none"]
    /\ stop_pc = "init"
    /\ host_calls = [register |-> 0, start |-> 0]

\* StatusChangeDetector.__init__: no snapshot seen.
InitDetector ==
    /\ last_snapshot = <<>>
    /\ changes = <<>>
    /\ monitor_snapshot = <<>>
    /\ monitor_todo = <<>>

InitExt ==
    /\ InitBus /\ InitDetector
    /\ order_queue = <<>> /\ redis_client = "connected"
    /\ events_queue = <<>> /\ handler_calls = <<>>
    /\ dispatch_call = [k \in DispatchIds |-> NoDispatch]
    /\ controller = NoController /\ force_refresh = NoForce
    /\ outstanding = [w \in Workers |-> {}]
    /\ order_writes = 0
    /\ hint_by = [user |-> [u \in Users |-> 0], group |-> [g \in Users |-> 0]]

InitStore ==
    /\ orders = [o \in OrderIds |->
                    IF o \in InitialOrderIds
                    THEN [status |-> PENDING, filled |-> Whole(0), user_id |-> InitialOwner(o)]
                    ELSE NoRow]
    /\ users = [u \in Users |-> USER_ENABLED]
    /\ groups = [g \in Users |-> GROUP_OPEN]
    /\ status_log = <<>>
    /\ user_lock = [u \in Users |-> None]
    /\ order_processing = [o \in OrderIds |-> None]
    /\ user_status_cache = [u \in Users |-> -1]
    /\ group_status_cache = [g \in Users |-> -1]

InitWorkers ==
    /\ active_users = [w \in Workers |-> {}]
    /\ last_user_refresh = [w \in Workers |-> 0]
    /\ user_priority_scores = [w \in Workers |-> [u \in Users |-> [count |-> 0, sum |-> 0]]]
    /\ refresh_call = [w \in Workers |-> [t \in Callers |-> NoRefresh]]
    /\ poll = [w \in Workers |-> NoPoll]
    /\ pc = [w \in Workers |-> "idle"]
    /\ cur = [w \in Workers |-> NoCur]
    /\ hand = [w \in Workers |-> <<>>]
    /\ counters = [w \in Workers |-> [processed |-> 0, errors |-> 0]]
    /\ ret = [w \in Workers |-> NoRet]
    /\ taken = [w \in Workers |-> [u \in Users |-> <<>>]]

Init ==
    /\ InitStore
    /\ InitWorkers
    /\ InitExt
    /\ user_queues = [w \in Workers |-> <<>>]
    /\ prio = [o \in OrderIds |-> o % (MaxPriority + 1)]

\* The queue the queue properties are checked on: the one of the owner of
\* order 1 in the manager of some worker.
QueueWorker == CHOOSE w \in Workers : TRUE
QueueUser == InitialOwner(1)

\* The priorities the orders of the queue's user start with: alternating
\* over the range of priorities, and all equal.
QueuePriorities ==
    {[o \in OrderIds |-> IF o \in InitialOrderIds /\ InitialOwner(o) = QueueUser
                          THEN o % (MaxPriority + 1) ELSE 0],
     [o \in OrderIds |-> 0]}

\* A UserOrderQueue constructed for QueueUser in the manager of QueueWorker.
InitQueue ==
    /\ InitStore
    /\ InitWorkers
    /\ InitExt
    /\ user_queues = [w \in Workers |-> IF w = QueueWorker THEN QueueUser :> NewQueue ELSE <<>>]
    /\ prio \in QueuePriorities

\* --------------------------------------------------- the store's other writers
\* config.ORDER_STATUS
OrderStatuses == {PENDING, PARTIAL, FILLED, CANCELLED}

\* The value of an argument that was not given (filled_quantity = None): no
\* decimal number.
NotGiven == [n |-> 0, e |-> -1]

\* UPDATE orders SET status = %s, filled_quantity = %s ... WHERE id = %s: the
\* table afterwards.  The statement names the id only: whatever status and
\* filled_quantity the row holds, it gets the new ones; filled_quantity stays
\* when none is given; no row, no change.
UpdateOrderStatus(rows, o, st, f) ==
    IF rows[o] = NoRow THEN rows
    ELSE [rows EXCEPT ![o].status = st,
                      ![o].filled = IF f = NotGiven THEN @ ELSE f]

\* The (status, filled_quantity) arguments the other writers pass in the
\* compositions that follow a queue: each status once, with no fill, half the
\* quantity, the quantity, and with filled_quantity not given.
WriterInputs ==
    {[status |-> PENDING, filled |-> Whole(0)],
     [status |-> PARTIAL, filled |-> Dec(Quantity * 5, 1)],
     [status |-> FILLED, filled |-> Whole(Quantity)],
     [status |-> CANCELLED, filled |-> NotGiven]}

\* The filled_quantity arguments of the writers of the whole system: those
\* above, an amount of two decimal places and one above the quantity.
FilledInputs ==
    {wr.filled : wr \in WriterInputs} \cup {Dec(73, 2), Whole(Quantity + 1)}

\* order_writes after one more write of another client of the store; the
\* count stops at MaxOrderWrites.
NoteWrite == IF order_writes < MaxOrderWrites THEN order_writes + 1 ELSE order_writes

\* OrderDAO.update_order_status(o, st, f) called by another writer of the
\* store (the exchange gateway, an operator) with any status and any
\* filled_quantity.
StoreOrderChange(o, st, f) ==
    /\ orders' = UpdateOrderStatus(orders, o, st, f)
    /\ order_writes' = NoteWrite
    /\ UNCHANGED <<prio, users, groups, status_log, cacheVars, mgrVars, procVars, ret, taken>>
    /\ UNCHANGED <<busVars, detVars, redisVars, dispVars, outstanding, hint_by>>

\* The id INSERT INTO orders gives the new row: the AUTO_INCREMENT column,
\* one more than the rows the table holds (no row is ever deleted).
NextOrderId == Cardinality({o \in OrderIds : orders[o] # NoRow}) + 1

\* OrderDAO.create_order(order_data) called by another writer: a row of user
\* u in the user's group with status order_data.get('status', PENDING) and
\* priority order_data.get('priority', 0); filled_quantity is the column's
\* default.
CreateOrder(u, st, p) ==
    /\ NextOrderId \in OrderIds
    /\ orders' = [orders EXCEPT ![NextOrderId] = [status |-> st, filled |-> Whole(0), user_id |-> u]]
    /\ prio' = [prio EXCEPT ![NextOrderId] = p]
    /\ UNCHANGED order_writes
    /\ UNCHANGED <<users, groups, status_log, cacheVars, mgrVars, procVars, ret, taken>>
    /\ UNCHANGED <<busVars, detVars, redisVars, dispVars, outstanding, hint_by>>

\* ------------------------------------------------- UserOrderQueue operations
\* UserOrderManager.get_user_queue
GetUserQueue(w, u) ==
    /\ ~ManagerLocked(w)
    /\ user_queues' = IF HasQueue(w, u) THEN user_queues ELSE SetQueue(w, u, NewQueue)
    /\ ret' = Returned(w, "get_user_queue", u, 0, TRUE, 0, FALSE)
    /\ UNCHANGED <<storeVars, cacheVars, schedVars, procVars, taken>>
    /\ UNCHANGED extVars

\* UserOrderQueue.refresh_orders on the queue of user u in worker w's manager.
\* The store either answers or raises; an exception is caught and 0 returned.
QueueRefreshOrders(w, u) ==
    /\ HasQueue(w, u)
    /\ \/ \E rows \in GetUserOrders(u) :
            LET q == RefreshOrders(user_queues[w][u], rows)
            IN  /\ user_queues' = SetQueue(w, u, q)
                /\ taken' = [taken EXCEPT ![w][u] = <<>>]
                /\ ret' = Returned(w, "refresh_orders", u, 0, TRUE, Len(q.pending), FALSE)
       \/ /\ ret' = Returned(w, "refresh_orders", u, 0, FALSE, 0, FALSE)
          /\ user_queues' = SetQueue(w, u, RefreshOrdersRaised(user_queues[w][u]))
          /\ UNCHANGED taken
    /\ UNCHANGED <<storeVars, cacheVars, schedVars, procVars>>
    /\ UNCHANGED extVars

\* UserOrderQueue.get_next_order
QueueGetNextOrder(w, u) ==
    /\ HasQueue(w, u)
    /\ LET r == GetNextOrder(user_queues[w][u])
       IN  /\ user_queues' = SetQueue(w, u, r.queue)
           /\ outstanding' = HandedOut(w, r.order)
           /\ IF r.order # <<>>
              THEN /\ taken' = NoteTaken(w, u, r.order[1].id)
                   /\ ret' = Returned(w, "get_next_order", u, r.order[1].id, TRUE, 0, FALSE)
              ELSE /\ taken' = taken
                   /\ ret' = Returned(w, "get_next_order", u, None, FALSE, 0, FALSE)
    /\ UNCHANGED <<storeVars, cacheVars, schedVars, procVars>>
    /\ UNCHANGED <<busVars, detVars, redisVars, dispVars, order_writes, hint_by>>

\* UserOrderQueue.mark_order_completed
QueueMarkOrderCompleted(w, u, o) ==
    /\ HasQueue(w, u)
    /\ user_queues' = SetQueue(w, u, MarkOrderCompleted(user_queues[w][u], o))
    /\ ret' = Returned(w, "mark_order_completed", u, 0, FALSE, 0, FALSE)
    /\ outstanding' = [outstanding EXCEPT ![w] = @ \ {o}]
    /\ UNCHANGED <<storeVars, cacheVars, schedVars, procVars, taken>>
    /\ UNCHANGED <<busVars, detVars, redisVars, dispVars, order_writes, hint_by>>

\* The queue of user QueueUser in the manager of worker QueueWorker under every
\* interleaving of its operations and of the store's other writers.
NextQueue ==
    \/ QueueRefreshOrders(QueueWorker, QueueUser)
    \/ QueueGetNextOrder(QueueWorker, QueueUser)
    \/ \E o \in OrdersOf(QueueUser) : QueueMarkOrderCompleted(QueueWorker, QueueUser, o)
    \/ \E o \in OrdersOf(QueueUser) : \E wr \in WriterInputs :
          order_writes < MaxOrderWrites /\ StoreOrderChange(o, wr.status, wr.filled)
    \/ \E p \in 0..MaxPriority : CreateOrder(QueueUser, PENDING, p)

SpecQueue == InitQueue /\ [][NextQueue]_vars

\* ------------------------------------------------------ queue properties
PendingIds(q) == {q.pending[i].id : i \in 1..Len(q.pending)}

\* C4: in every queue no order id is both in pending_orders and in
\* processing_orders, and no id occurs twice in pending_orders.
C4_PendingProcessingDisjoint ==
    \A w \in Workers : \A u \in DOMAIN user_queues[w] :
        LET q == user_queues[w][u]
        IN  /\ PendingIds(q) \cap q.processing = {}
            /\ \A i, j \in 1..Len(q.pending) : i # j => q.pending[i].id # q.pending[j].id

\* A refresh ran while an order was in flight, and orders are pending too.
C4_Witness ==
    \E w \in Workers :
        /\ ret[w].op = "refresh_orders" /\ ret[w].ok
        /\ user_queues[w][ret[w].u].processing # {}
        /\ Len(user_queues[w][ret[w].u].pending) >= 2

\* C5: the in-flight set of every queue has at most max_concurrent ids;
\* get_next_order that returned an order put it in flight, and one that
\* returned nothing found the bound reached or nothing pending.
C5_InFlightBounded ==
    /\ \A w \in Workers : \A u \in DOMAIN user_queues[w] :
          Cardinality(user_queues[w][u].processing) <= MaxConcurrent
    /\ \A w \in Workers :
          ret[w].op = "get_next_order" =>
              LET q == user_queues[w][ret[w].u]
              IN  IF ret[w].ok
                  THEN ret[w].o \in q.processing /\ ret[w].o \notin PendingIds(q)
                  ELSE Cardinality(q.processing) >= MaxConcurrent \/ q.pending = <<>>

\* get_next_order returned nothing with an order pending: the bound refused it.
C5_Witness ==
    \E w \in Workers :
        /\ ret[w].op = "get_next_order" /\ ~ret[w].ok
        /\ user_queues[w][ret[w].u].pending # <<>>
        /\ Cardinality(user_queues[w][ret[w].u].processing) = MaxConcurrent

\* C6: when refresh_orders has completed, no id of the in-flight set is in the
\* new pending sequence, although the store returned its row.
C6_RefreshSkipsInFlight ==
    \A w \in Workers :
        (ret[w].op = "refresh_orders" /\ ret[w].ok) =>
            LET q == user_queues[w][ret[w].u]
            IN  \A i \in 1..Len(q.pending) : q.pending[i].id \notin q.processing

\* The refresh found an in-flight order still PENDING in the store.
C6_Witness ==
    \E w \in Workers :
        /\ ret[w].op = "refresh_orders" /\ ret[w].ok
        /\ \E o \in user_queues[w][ret[w].u].processing : orders[o].status = PENDING

\* Descending priority, then ascending created-at.
TakeOrderOK(a, b) ==
    \/ prio[a] > prio[b]
    \/ prio[a] = prio[b] /\ CreatedAt(a) <= CreatedAt(b)

\* C7: two orders get_next_order returned one after the other with no refresh
\* in between come in descending priority and, at equal priority, in
\* ascending created-at.
C7_TakeOrder ==
    \A w \in Workers : \A u \in Users :
        Len(taken[w][u]) = 2 => TakeOrderOK(taken[w][u][1], taken[w][u][2])

\* Two takes at equal priority, the older order first although its id is larger.
C7_Witness ==
    \E w \in Workers : \E u \in Users :
        /\ Len(taken[w][u]) = 2
        /\ prio[taken[w][u][1]] = prio[taken[w][u][2]]
        /\ CreatedAt(taken[w][u][1]) < CreatedAt(taken[w][u][2])
        /\ taken[w][u][1] > taken[w][u][2]

\* C24: mark_order_completed(id) removes id from the in-flight set if it is
\* there and changes nothing else: pending sequence and last-refresh time
\* stay, an id that is not in flight leaves the whole queue as it was, and a
\* second call with the same id changes nothing.
C24_MarkCompletedIdempotent ==
    [][\A o \in OrdersOf(QueueUser) :
          QueueMarkOrderCompleted(QueueWorker, QueueUser, o) =>
              LET q == user_queues[QueueWorker][QueueUser]
                  q2 == user_queues'[QueueWorker][QueueUser]
              IN  /\ q2.pending = q.pending
                  /\ q2.last_fetch_time = q.last_fetch_time
                  /\ q2.processing = q.processing \ {o}
                  /\ (o \notin q.processing => q2 = q)
                  /\ MarkOrderCompleted(q2, o) = q2]_vars

\* mark_order_completed was called for an order of the user while all the
\* user's orders were pending, none in flight: an id that is not taken.
C24_Witness ==
    /\ ret[QueueWorker].op = "mark_order_completed"
    /\ HasQueue(QueueWorker, QueueUser)
    /\ user_queues[QueueWorker][QueueUser].processing = {}
    /\ PendingIds(user_queues[QueueWorker][QueueUser]) = OrdersOf(QueueUser)

\* C26: when the store query inside refresh_orders fails, the call returns
\* (0) without raising and the queue's pending sequence, in-flight set and
\* last-refresh time are as they were.
C26_RefreshFailureKeepsQueue ==
    [][(QueueRefreshOrders(QueueWorker, QueueUser) /\ ~ret'[QueueWorker].ok) =>
          /\ ~ret'[QueueWorker].raised
          /\ ret'[QueueWorker].n = 0
          /\ user_queues'[QueueWorker][QueueUser] = user_queues[QueueWorker][QueueUser]]_vars

\* A refresh failed on a queue that had been refreshed before and holds
\* pending and in-flight orders.
C26_Witness ==
    /\ ret[QueueWorker].op = "refresh_orders" /\ ~ret[QueueWorker].ok
    /\ HasQueue(QueueWorker, QueueUser)
    /\ user_queues[QueueWorker][QueueUser].pending # <<>>
    /\ user_queues[QueueWorker][QueueUser].processing # {}
    /\ user_queues[QueueWorker][QueueUser].last_fetch_time = 1

\* ------------------------------------------------------------ user lock
\* The attributes CacheService.__init__ sets on the cache_service instance.
CacheServiceAttrs == {"redis"}

\* _try_acquire_user_lock on a key whose value is `lock`: the key afterwards
\* and the boolean returned.  cache_service.redis_client is evaluated inside
\* the try block; when CacheService has no such attribute the AttributeError
\* is caught and False returned, whatever the state of the connection.
\* Otherwise SET key worker NX EX timeout.
TryAcquireUserLock(lock, w) ==
    IF "redis_client" \notin CacheServiceAttrs THEN [lock |-> lock, result |-> FALSE]
    ELSE IF lock = None THEN [lock |-> w, result |-> TRUE]
    ELSE [lock |-> lock, result |-> FALSE]

\* release_user_lock: the key afterwards and whether the call raised.  The
\* attribute lookup is inside the try block as well; otherwise the Lua script
\* deletes the key when its value is the worker's id.
ReleaseUserLock(lock, w) ==
    IF "redis_client" \notin CacheServiceAttrs THEN [lock |-> lock, raised |-> FALSE]
    ELSE IF lock = w THEN [lock |-> None, raised |-> FALSE]
    ELSE [lock |-> lock, raised |-> FALSE]

\* UserOrderManager._try_acquire_user_lock(user_id, worker_id)
TryAcquireUserLockCall(w, u) ==
    LET r == TryAcquireUserLock(user_lock[u], w)
    IN  /\ user_lock' = [user_lock EXCEPT ![u] = r.lock]
        /\ ret' = Returned(w, "try_acquire_user_lock", u, 0, r.result, 0, FALSE)
        /\ UNCHANGED <<storeVars, order_processing, user_status_cache, group_status_cache,
                       mgrVars, procVars, taken>>
        /\ UNCHANGED extVars

\* UserOrderManager.release_user_lock(user_id, worker_id)
ReleaseUserLockCall(w, u) ==
    LET r == ReleaseUserLock(user_lock[u], w)
    IN  /\ user_lock' = [user_lock EXCEPT ![u] = r.lock]
        /\ ret' = Returned(w, "release_user_lock", u, 0, FALSE, 0, r.raised)
        /\ UNCHANGED <<storeVars, order_processing, user_status_cache, group_status_cache,
                       mgrVars, procVars, taken>>
        /\ UNCHANGED extVars

\* ------------------------------------------------------ UserOrderManager
\* The rows of the active-users query of refresh_active_users: the users that
\* are enabled and own a PENDING or PARTIAL order in an open group.
ActiveOrders(u) ==
    {o \in OrdersOf(u) : /\ orders[o].status \in {PENDING, PARTIAL}
                         /\ users[u] = USER_ENABLED
                         /\ groups[GroupOf(o)] = GROUP_OPEN}

ActiveUsersData == {u \in Users : ActiveOrders(u) # {}}

RECURSIVE SumPrio(_)
SumPrio(S) == IF S = {} THEN 0 ELSE LET o == CHOOSE x \in S : TRUE IN prio[o] + SumPrio(S \ {o})

\* order_count and the sum of priorities (avg_priority = sum / count) of a row.
ScoreOf(u) == [count |-> Cardinality(ActiveOrders(u)), sum |-> SumPrio(ActiveOrders(u))]

\* The answer of the query on the store as it is: per user the row's
\* order_count and priority sum, count 0 for a user without a row.
ActiveUsersAnswer == [u \in Users |-> ScoreOf(u)]

\* order_count * 0.7 + avg_priority * 0.3 of an entry is
\* (7 * count^2 + 3 * sum) / (10 * count); a missing entry scores 0.
\* ScoreLE(a, b): score(a) <= score(b), compared without division.
ScoreNum(a) == 7 * a.count * a.count + 3 * a.sum
ScoreLE(a, b) ==
    IF a.count = 0 THEN TRUE
    ELSE IF b.count = 0 THEN FALSE
    ELSE ScoreNum(a) * b.count <= ScoreNum(b) * a.count

\* The rows of the answer in an order "ORDER BY order_count DESC,
\* avg_priority DESC" allows: rows that tie on both come in any order.
RowLE(a, b) ==
    \/ a.count > b.count
    \/ a.count = b.count /\ a.sum * b.count >= b.sum * a.count

AnswerRows(answer) ==
    {p \in Perms({u \in Users : answer[u].count > 0}) :
        \A i \in 1..(Len(p) - 1) : RowLE(answer[p[i]], answer[p[i + 1]])}

\* What "if queue.need_refresh(): queue.refresh_orders()" can leave of queue q
\* of user u: the refreshed queue for every answer of the store, or q itself
\* when the refresh is not due or the store raised.
RefreshChoices(q, u) ==
    UNION {IF NeedRefresh(q, elapsed)
           THEN {RefreshOrders(q, rows) : rows \in GetUserOrders(u)} \cup {q}
           ELSE {q}
           : elapsed \in BOOLEAN}

\* sorted(list, key=..., reverse=True) once the key of every element is
\* known: descending key, and the sort is stable, so an element goes behind
\* every element before it whose key is not smaller.
InsertUser(s, x) ==
    LET k == Cardinality({i \in 1..Len(s) : ScoreLE(x.key, s[i].key)})
    IN  SubSeq(s, 1, k) \o <<x>> \o SubSeq(s, k + 1, Len(s))

RECURSIVE SortPairs(_)
SortPairs(pairs) ==
    IF pairs = <<>> THEN <<>>
    ELSE InsertUser(SortPairs(SubSeq(pairs, 1, Len(pairs) - 1)), pairs[Len(pairs)])

SortedUsers(list, keys) ==
    LET s == SortPairs([i \in 1..Len(list) |-> [uid |-> list[i], key |-> keys[i]]])
    IN  [i \in 1..Len(s) |-> s[i].uid]

\* for _ in range(batch_size): order = queue.get_next_order() ...
RECURSIVE TakeBatch(_, _)
TakeBatch(q, n) ==
    IF n = 0 THEN [queue |-> q, orders |-> <<>>]
    ELSE LET r == GetNextOrder(q)
         IN  IF r.order = <<>> THEN [queue |-> q, orders |-> <<>>]
             ELSE LET rest == TakeBatch(r.queue, n - 1)
                  IN  [queue |-> rest.queue, orders |-> r.order \o rest.orders]

\* The loop of get_next_user_orders over the users in `seq` for worker w:
\* the lock keys and the queues afterwards, the user leased (None: none) and
\* the batch.
RECURSIVE LeaseUsers(_, _, _, _, _)
LeaseUsers(seq, lock, queues, w, batch_size) ==
    IF seq = <<>> THEN {[lock |-> lock, queues |-> queues, user |-> None, orders |-> <<>>]}
    ELSE LET u == Head(seq)
             a == TryAcquireUserLock(lock[u], w)
             lock1 == [lock EXCEPT ![u] = a.lock]
             queue == IF u \in DOMAIN queues THEN queues[u] ELSE NewQueue
         IN  IF ~a.result THEN LeaseUsers(Tail(seq), lock, queues, w, batch_size)
             ELSE UNION {LET b == TakeBatch(q1, batch_size)
                             qs == (u :> b.queue) @@ queues
                         IN  IF b.orders # <<>>
                             THEN {[lock |-> lock1, queues |-> qs, user |-> u,
                                    orders |-> b.orders]}
                             ELSE LeaseUsers(Tail(seq),
                                             [lock1 EXCEPT ![u] = ReleaseUserLock(lock1[u], w).lock],
                                             qs, w, batch_size)
                         : q1 \in RefreshChoices(queue, u)}

\* ---------------------------------------------- UserOrderManager operations
\* Caller t of refresh_active_users on the manager of w can run a statement
\* of the block "with self.lock": it holds the lock, or it has the answer of
\* its query and the lock is free.
InBlock(w, t) ==
    \/ refresh_call[w][t].pc = "locked"
    \/ refresh_call[w][t].pc = "update" /\ ~ManagerLocked(w)

\* One turn of "for user_data in active_users_data" under self.lock: the
\* score of the row's user is written.
RefreshScoreStep(w, t) ==
    /\ InBlock(w, t)
    /\ refresh_call[w][t].rows # <<>>
    /\ LET user_id == Head(refresh_call[w][t].rows)
       IN  user_priority_scores' =
               [user_priority_scores EXCEPT ![w][user_id] = refresh_call[w][t].answer[user_id]]
    /\ refresh_call' = [refresh_call EXCEPT ![w][t].pc = "locked", ![w][t].rows = Tail(@)]
    /\ UNCHANGED <<active_users, user_queues, last_user_refresh, taken, poll>>

\* The rest of the block after the last row: the queues of the users that
\* left the set are deleted from the registry, active_users becomes the new
\* set and last_user_refresh the time of the call; the lock is released and
\* the call is left as `after`.  A get_next_user_order call that holds the
\* queue of a user deleted here keeps the object.
RefreshSwapStep(w, t, after) ==
    /\ InBlock(w, t)
    /\ refresh_call[w][t].rows = <<>>
    /\ LET new_active_users == {u \in Users : refresh_call[w][t].answer[u].count > 0}
           inactive_users == active_users[w] \ new_active_users
           deleted == inactive_users \cap DOMAIN user_queues[w]
       IN  /\ user_queues' = [user_queues EXCEPT ![w] =
                                 [u \in DOMAIN user_queues[w] \ deleted |-> user_queues[w][u]]]
           /\ active_users' = [active_users EXCEPT ![w] = new_active_users]
           /\ last_user_refresh' = [last_user_refresh EXCEPT ![w] = 1]
           /\ taken' = [taken EXCEPT ![w] = [u \in Users |->
                            IF u \in deleted THEN <<>> ELSE taken[w][u]]]
           /\ poll' = [poll EXCEPT ![w] =
                          IF /\ pc[w] \in {"next_fetch", "next_take"}
                             /\ poll[w].queue = <<>>
                             /\ Head(poll[w].users) \in deleted
                          THEN [@ EXCEPT !.queue = <<user_queues[w][Head(poll[w].users)]>>]
                          ELSE @]
    /\ refresh_call' = [refresh_call EXCEPT ![w][t] = after]
    /\ UNCHANGED user_priority_scores

\* refresh_active_users of thread t up to the query.  Within the refresh
\* interval it returns the size of the current set; when the query raises it
\* returns 0; in both cases nothing changes.  Otherwise the thread holds the
\* answer of the store; the manager's lock is not held.
RefreshQuery(w, t) ==
    /\ refresh_call[w][t].pc = "none"
    /\ \/ /\ last_user_refresh[w] # 0
          /\ ret' = Returned(w, "refresh_active_users", 0, 0, TRUE,
                             Cardinality(active_users[w]), FALSE)
          /\ UNCHANGED refresh_call
       \/ /\ ret' = Returned(w, "refresh_active_users", 0, 0, FALSE, 0, FALSE)
          /\ UNCHANGED refresh_call
       \/ /\ \E rows \in AnswerRows(ActiveUsersAnswer) :
                refresh_call' = [refresh_call EXCEPT ![w][t] =
                                    [pc |-> "update", answer |-> ActiveUsersAnswer,
                                     rows |-> rows]]
          /\ UNCHANGED ret
    /\ UNCHANGED <<storeVars, cacheVars, active_users, last_user_refresh,
                   user_priority_scores, poll, user_queues, procVars, taken>>
    /\ UNCHANGED extVars

\* refresh_active_users of thread t, a score written under self.lock.
RefreshScore(w, t) ==
    /\ RefreshScoreStep(w, t)
    /\ UNCHANGED <<storeVars, cacheVars, procVars, ret>>
    /\ UNCHANGED extVars

\* refresh_active_users of thread t, the end of the block under self.lock.
RefreshSwap(w, t) ==
    /\ RefreshSwapStep(w, t, [NoRefresh EXCEPT !.pc = "return"])
    /\ UNCHANGED <<storeVars, cacheVars, procVars, ret>>
    /\ UNCHANGED extVars

\* refresh_active_users of thread t, "return len(self.active_users)", read
\* after the lock was released.
RefreshReturn(w, t) ==
    /\ refresh_call[w][t].pc = "return"
    /\ refresh_call' = [refresh_call EXCEPT ![w][t] = NoRefresh]
    /\ ret' = Returned(w, "refresh_active_users", 0, 0, TRUE,
                       Cardinality(active_users[w]), FALSE)
    /\ UNCHANGED <<storeVars, cacheVars, active_users, last_user_refresh,
                   user_priority_scores, poll, user_queues, procVars, taken>>
    /\ UNCHANGED extVars

\* UserOrderManager.refresh_active_users called by thread t of worker w's
\* process.
RefreshActiveUsersCall(w, t) ==
    \/ RefreshQuery(w, t)
    \/ RefreshScore(w, t)
    \/ RefreshSwap(w, t)
    \/ RefreshReturn(w, t)

\* UserOrderManager.mark_order_completed(order_id, user_id): the registry is
\* read without the manager's lock.
MarkOrderCompletedCall(w, o, u) ==
    /\ user_queues' = IF HasQueue(w, u)
                      THEN SetQueue(w, u, MarkOrderCompleted(user_queues[w][u], o))
                      ELSE user_queues
    /\ ret' = Returned(w, "mark_order_completed", u, o, FALSE, 0, FALSE)
    /\ outstanding' = [outstanding EXCEPT ![w] = @ \ {o}]
    /\ UNCHANGED <<storeVars, cacheVars, schedVars, procVars, taken>>
    /\ UNCHANGED <<busVars, detVars, redisVars, dispVars, order_writes, hint_by>>

\* get_next_user_order of worker w, the call of refresh_active_users up to
\* its query: within the interval or with the query raising the refresh
\* returns and the call goes on to the test of active_users; otherwise the
\* call holds the answer of the store.  The loop of a worker is followed
\* while it has counted fewer than `calls` calls of process_order.
GetNextBegin(w, calls) ==
    /\ pc[w] = "idle" /\ hand[w] = <<>>
    /\ counters[w].processed + counters[w].errors < calls
    /\ \/ /\ last_user_refresh[w] # 0
          /\ pc' = [pc EXCEPT ![w] = "next_test"]
          /\ UNCHANGED refresh_call
       \/ /\ pc' = [pc EXCEPT ![w] = "next_test"]
          /\ UNCHANGED refresh_call
       \/ /\ \E rows \in AnswerRows(ActiveUsersAnswer) :
                refresh_call' = [refresh_call EXCEPT ![w][0] =
                                    [pc |-> "update", answer |-> ActiveUsersAnswer,
                                     rows |-> rows]]
          /\ pc' = [pc EXCEPT ![w] = "next_update"]
    /\ UNCHANGED <<storeVars, cacheVars, active_users, last_user_refresh,
                   user_priority_scores, poll, user_queues, cur, hand, counters, ret, taken>>
    /\ UNCHANGED extVars

\* get_next_user_order, a statement of the block of its refresh under
\* self.lock: a score, or the end of the block, after which the refresh
\* returns.
GetNextRefresh(w) ==
    /\ pc[w] = "next_update"
    /\ \/ RefreshScoreStep(w, 0) /\ UNCHANGED pc
       \/ RefreshSwapStep(w, 0, NoRefresh) /\ pc' = [pc EXCEPT ![w] = "next_test"]
    /\ UNCHANGED <<storeVars, cacheVars, cur, hand, counters, ret>>
    /\ UNCHANGED extVars

\* get_next_user_order: "if not self.active_users: return None", read without
\* the lock.
GetNextTest(w) ==
    /\ pc[w] = "next_test"
    /\ IF active_users[w] = {}
       THEN /\ pc' = [pc EXCEPT ![w] = "idle"]
            /\ ret' = Returned(w, "get_next_user_order", 0, None, FALSE, 0, FALSE)
       ELSE /\ pc' = [pc EXCEPT ![w] = "next_list"]
            /\ UNCHANGED ret
    /\ UNCHANGED <<storeVars, cacheVars, mgrVars, cur, hand, counters, taken>>
    /\ UNCHANGED extVars

\* sorted(self.active_users, ...): the set is read again and its elements
\* are copied to a list, in the set's iteration order, which is any order.
\* An empty list ends the call: the loop has no turn.
GetNextList(w) ==
    /\ pc[w] = "next_list"
    /\ \E list \in Perms(active_users[w]) :
          IF list = <<>>
          THEN /\ pc' = [pc EXCEPT ![w] = "idle"]
               /\ ret' = Returned(w, "get_next_user_order", 0, None, FALSE, 0, FALSE)
               /\ UNCHANGED poll
          ELSE /\ pc' = [pc EXCEPT ![w] = "next_key"]
               /\ poll' = [poll EXCEPT ![w] = [NoPoll EXCEPT !.list = list]]
               /\ UNCHANGED ret
    /\ UNCHANGED <<storeVars, cacheVars, active_users, last_user_refresh,
                   user_priority_scores, refresh_call, user_queues, cur, hand, counters,
                   taken>>
    /\ UNCHANGED extVars

\* sorted(...), the key of the next element of the list:
\* self.user_priority_scores.get(uid, 0), read without the lock.  After the
\* last key the list is sorted.
GetNextKey(w) ==
    /\ pc[w] = "next_key"
    /\ LET uid == poll[w].list[Len(poll[w].keys) + 1]
           keys == Append(poll[w].keys, user_priority_scores[w][uid])
       IN  IF Len(keys) < Len(poll[w].list)
           THEN /\ poll' = [poll EXCEPT ![w].keys = keys]
                /\ UNCHANGED pc
           ELSE /\ poll' = [poll EXCEPT ![w] =
                               [NoPoll EXCEPT !.users = SortedUsers(poll[w].list, keys)]]
                /\ pc' = [pc EXCEPT ![w] = "next_queue"]
    /\ UNCHANGED <<storeVars, cacheVars, active_users, last_user_refresh,
                   user_priority_scores, refresh_call, user_queues, cur, hand, counters,
                   ret, taken>>
    /\ UNCHANGED extVars

\* The user of the current turn of "for user_id in sorted_users" and the
\* UserOrderQueue object the turn holds.
PollUser(w) == Head(poll[w].users)
PollQueue(w) == IF poll[w].queue # <<>> THEN poll[w].queue[1]
                ELSE user_queues[w][PollUser(w)]

\* get_next_user_order, a turn of the loop: get_user_queue(user_id) under
\* self.lock, which creates the queue when the registry has none.
GetNextQueue(w) ==
    /\ pc[w] = "next_queue"
    /\ ~ManagerLocked(w)
    /\ user_queues' = IF HasQueue(w, PollUser(w)) THEN user_queues
                      ELSE SetQueue(w, PollUser(w), NewQueue)
    /\ pc' = [pc EXCEPT ![w] = "next_fetch"]
    /\ UNCHANGED <<storeVars, cacheVars, schedVars, cur, hand, counters, ret, taken>>
    /\ UNCHANGED extVars

\* get_next_user_order, "if user_queue.need_refresh():
\* user_queue.refresh_orders()" on the queue the turn holds.
GetNextFetch(w) ==
    /\ pc[w] = "next_fetch"
    /\ \E q \in RefreshChoices(PollQueue(w), PollUser(w)) :
          IF poll[w].queue # <<>>
          THEN /\ poll' = [poll EXCEPT ![w].queue = <<q>>]
               /\ UNCHANGED <<user_queues, taken>>
          ELSE /\ user_queues' = SetQueue(w, PollUser(w), q)
               /\ taken' = [taken EXCEPT ![w][PollUser(w)] = <<>>]
               /\ UNCHANGED poll
    /\ pc' = [pc EXCEPT ![w] = "next_take"]
    /\ UNCHANGED <<storeVars, cacheVars, active_users, last_user_refresh,
                   user_priority_scores, refresh_call, cur, hand, counters, ret>>
    /\ UNCHANGED extVars

\* get_next_user_order, user_queue.get_next_order() on the queue the turn
\* holds.  An order ends the call and goes to the caller's hand; without one
\* the loop goes to the next user, and after the last user the call returns
\* None.
GetNextTake(w) ==
    /\ pc[w] = "next_take"
    /\ LET r == GetNextOrder(PollQueue(w))
           rest == Tail(poll[w].users)
       IN  /\ IF poll[w].queue # <<>>
              THEN UNCHANGED <<user_queues, taken>>
              ELSE /\ user_queues' = SetQueue(w, PollUser(w), r.queue)
                   /\ taken' = [taken EXCEPT ![w][PollUser(w)] = <<>>]
           /\ hand' = [hand EXCEPT ![w] = r.order]
           /\ outstanding' = HandedOut(w, r.order)
           /\ IF r.order # <<>>
              THEN /\ poll' = [poll EXCEPT ![w] = NoPoll]
                   /\ pc' = [pc EXCEPT ![w] = "idle"]
                   /\ ret' = Returned(w, "get_next_user_order", OwnerOf(r.order[1].id),
                                      r.order[1].id, TRUE, 0, FALSE)
              ELSE IF rest = <<>>
              THEN /\ poll' = [poll EXCEPT ![w] = NoPoll]
                   /\ pc' = [pc EXCEPT ![w] = "idle"]
                   /\ ret' = Returned(w, "get_next_user_order", 0, None, FALSE, 0, FALSE)
              ELSE /\ poll' = [poll EXCEPT ![w] = [NoPoll EXCEPT !.users = rest]]
                   /\ pc' = [pc EXCEPT ![w] = "next_queue"]
                   /\ UNCHANGED ret
    /\ UNCHANGED <<storeVars, cacheVars, active_users, last_user_refresh,
                   user_priority_scores, refresh_call, cur, counters>>
    /\ UNCHANGED <<busVars, detVars, redisVars, dispVars, order_writes, hint_by>>

\* UserOrderManager.get_next_user_order called by the loop of worker w, for
\* the orders of `calls` counted calls of process_order.
GetNextUserOrderUpTo(w, calls) ==
    \/ GetNextBegin(w, calls)
    \/ GetNextRefresh(w)
    \/ GetNextTest(w)
    \/ GetNextList(w)
    \/ GetNextKey(w)
    \/ GetNextQueue(w)
    \/ GetNextFetch(w)
    \/ GetNextTake(w)

GetNextUserOrderCall(w) == GetNextUserOrderUpTo(w, MaxCalls + 1)

\* UserOrderManager.get_next_user_orders(worker_id, batch_size): the set
\* active_users is iterated in any order; the batch goes to the caller's hand.
GetNextUserOrdersCall(w) ==
    /\ pc[w] = "idle" /\ hand[w] = <<>>
    /\ \E seq \in Perms(active_users[w]) :
         \E r \in LeaseUsers(seq, user_lock, user_queues[w], w, BatchSize) :
             /\ user_lock' = r.lock
             /\ user_queues' = [user_queues EXCEPT ![w] = r.queues]
             /\ hand' = [hand EXCEPT ![w] = r.orders]
             /\ outstanding' = HandedOut(w, r.orders)
             /\ taken' = IF r.queues = user_queues[w] THEN taken
                         ELSE [taken EXCEPT ![w] = [u \in Users |-> <<>>]]
             /\ ret' = Returned(w, "get_next_user_orders", r.user, None, r.user # None,
                                Len(r.orders), FALSE)
    /\ UNCHANGED <<storeVars, order_processing, user_status_cache, group_status_cache,
                   schedVars, pc, cur, counters>>
    /\ UNCHANGED <<busVars, detVars, redisVars, dispVars, order_writes, hint_by>>

\* users.status changed by another writer of the store.
StoreUserStatusChange(u, st) ==
    /\ users[u] # st
    /\ users' = [users EXCEPT ![u] = st]
    /\ UNCHANGED <<orders, prio, groups, status_log, cacheVars, mgrVars, procVars, ret, taken>>
    /\ UNCHANGED extVars

\* order_groups.status changed by another writer of the store.
StoreGroupStatusChange(g, st) ==
    /\ groups[g] # st
    /\ groups' = [groups EXCEPT ![g] = st]
    /\ UNCHANGED <<orders, prio, users, status_log, cacheVars, mgrVars, procVars, ret, taken>>
    /\ UNCHANGED extVars

\* -------------------------------------------------------- OrderProcessor
\* The (new_status, filled_quantity) pairs _simulate_order_processing can pick
\* for an order snapshot; the empty set when it returns True without an update
\* (FILLED and CANCELLED snapshots).  A PENDING snapshot may also be kept.
\* The draws of random.uniform(0.1, 0.9) and of random.uniform(0.1, 0.5) the
\* model follows, in tenths: the two ends of the first interval, the two ends
\* and the middle of the second.
PendingFillTenths == {1, 9}
PartialFillTenths == {1, 3, 5}

\* filled_quantity of a PENDING order that is filled in part:
\* order_data['quantity'] * random.uniform(0.1, 0.9)
FirstFill(k) == DecTenths(Whole(Quantity), k)

\* filled_quantity of a PARTIAL order that is filled further:
\*   remaining = order_data['quantity'] - current_filled
\*   additional_fill = remaining * random.uniform(0.1, 0.5)
\*   filled_quantity = current_filled + additional_fill
FurtherFill(current_filled, k) ==
    LET remaining == DecSub(Whole(Quantity), current_filled)
        additional_fill == DecTenths(remaining, k)
    IN  DecAdd(current_filled, additional_fill)

\* A variant whose further partial fill is a share of the whole quantity.
SimulateOutcomes_FillOfQuantity(order) ==
    IF order.status = PENDING
    THEN {[status |-> FILLED, filled |-> Whole(Quantity)]}
         \cup {[status |-> PARTIAL, filled |-> FirstFill(k)] : k \in PendingFillTenths}
    ELSE IF order.status = PARTIAL
    THEN {[status |-> FILLED, filled |-> Whole(Quantity)]}
         \cup {[status |-> PARTIAL, filled |-> DecAdd(order.filled, FirstFill(k))] :
                  k \in PartialFillTenths}
    ELSE {}

\* PENDING: FILLED with the quantity, or PARTIAL with quantity *
\* uniform(0.1, 0.9).  PARTIAL: FILLED with the quantity, or PARTIAL with
\* current_filled + remaining * uniform(0.1, 0.5), where remaining is
\* quantity - current_filled.
SimulateOutcomes(order) ==
    IF order.status = PENDING
    THEN {[status |-> FILLED, filled |-> Whole(Quantity)]}
         \cup {[status |-> PARTIAL, filled |-> FirstFill(k)] : k \in PendingFillTenths}
    ELSE IF order.status = PARTIAL
    THEN {[status |-> FILLED, filled |-> Whole(Quantity)]}
         \cup {[status |-> PARTIAL, filled |-> FurtherFill(order.filled, k)] :
                  k \in PartialFillTenths}
    ELSE {}

\* The type of each value of event.__dict__ of the OrderEvent that
\* _simulate_order_processing builds: __post_init__ sets timestamp to
\* datetime.now().
OrderEventTypes ==
    [order_id |-> "int", user_id |-> "int", group_id |-> "int", event_type |-> "str",
     old_status |-> "str", new_status |-> "str", filled_quantity |-> "float",
     timestamp |-> "datetime"]

\* The types json.dumps encodes without a default hook (a tuple is written
\* as a list).
JsonTypes == {"dict", "list", "tuple", "str", "int", "float", "bool", "NoneType"}

JsonDumpsRaises(types) == \E f \in DOMAIN types : types[f] \notin JsonTypes

\* The event of one status change, as far as the model tells events apart.
OrderEventOf(o, old_status, new_status, new_filled) ==
    [order_id |-> o, old_status |-> old_status, new_status |-> new_status,
     filled_quantity |-> new_filled]

\* cache_service.push_order_to_queue({'type': 'order_event', 'event':
\* event.__dict__}): RedisManager.lpush encodes the dict with json.dumps and
\* pushes it on the left of order:queue; an exception of the encoding or of
\* the client is caught, logged and answered with 0.
PushOrderToQueue(queue, event) ==
    IF JsonDumpsRaises(OrderEventTypes) THEN queue ELSE <<event>> \o queue

MayKeep(order) == order.status # PARTIAL

\* CacheService.is_order_processing(order_id): redis.exists(key); False when
\* the client raised.
IsOrderProcessing(client, marks, order_id) == client = "connected" /\ marks[order_id] # None

\* process_order, first step: is_order_processing(order_id).  The order is
\* taken from the caller's hand; a live mark makes the call return False.
\* The call is followed while the worker has counted fewer than `calls`
\* calls.
ProcessCheckUpTo(w, calls) ==
    /\ pc[w] = "idle" /\ hand[w] # <<>>
    /\ counters[w].processed + counters[w].errors < calls
    /\ LET order == Head(hand[w])
       IN  /\ hand' = [hand EXCEPT ![w] = Tail(hand[w])]
           /\ IF IsOrderProcessing(redis_client, order_processing, order.id)
              THEN /\ ret' = Returned(w, "process_order", OwnerOf(order.id), order.id,
                                      FALSE, 0, FALSE)
                   /\ UNCHANGED <<pc, cur>>
              ELSE /\ pc' = [pc EXCEPT ![w] = "mark"]
                   /\ cur' = [cur EXCEPT ![w] = [NoCur EXCEPT !.id = order.id,
                                                   !.status = order.status,
                                                   !.filled = order.filled]]
                   /\ ret' = ret
    /\ UNCHANGED <<storeVars, cacheVars, mgrVars, counters, taken>>
    /\ UNCHANGED extVars

\* CacheService.set_order_processing(order_id, worker_id): redis.set(key,
\* worker_id, ex=ttl), a plain SET without NX: the key holds worker_id
\* afterwards whoever held it before.
SetOrderProcessing(marks, order_id, w) == [marks EXCEPT ![order_id] = w]

\* CacheService.remove_order_processing(order_id): redis.delete(key), a plain
\* DEL: the key is absent afterwards whoever held it.
RemoveOrderProcessing_Keep(marks, order_id) == marks

RemoveOrderProcessing(marks, order_id) == [marks EXCEPT ![order_id] = None]

\* set_order_processing(order_id, worker_id): a plain SET of the mark.
ProcessMark(w) ==
    /\ pc[w] = "mark"
    /\ order_processing' = RedisWrite(redis_client, order_processing,
                                      SetOrderProcessing(order_processing, cur[w].id, w))
    /\ pc' = [pc EXCEPT ![w] = "user_get"]
    /\ UNCHANGED <<storeVars, user_lock, user_status_cache, group_status_cache, mgrVars,
                   cur, hand, counters, ret, taken>>
    /\ UNCHANGED extVars

\* The positions of a worker inside _check_order_eligibility: for the user
\* and then for the group the GET of the cached status, the SELECT of the row
\* after a miss and the SET of the status read.
EligibilityPcs == {"user_get", "user_db", "user_set", "group_get", "group_db", "group_set"}

\* What the check of one kind ("user" or "group") reads and compares.
StatusKey(w, kind) == IF kind = "user" THEN OwnerOf(cur[w].id) ELSE GroupOf(cur[w].id)
Eligible(kind) == IF kind = "user" THEN USER_ENABLED ELSE GROUP_OPEN
AfterStatus(kind) == IF kind = "user" THEN "group_get" ELSE "update"

\* cache_service.get_user_status / get_group_status: a miss goes on to the
\* store, a cached status that is not the eligible one returns False, the
\* eligible one goes on to the next check.
ProcessStatusGet(w, kind) ==
    /\ pc[w] = (IF kind = "user" THEN "user_get" ELSE "group_get")
    /\ LET cached == RedisGet(redis_client,
                              IF kind = "user" THEN user_status_cache[StatusKey(w, kind)]
                              ELSE group_status_cache[StatusKey(w, kind)])
       IN  pc' = [pc EXCEPT ![w] =
                    IF cached = -1 THEN (IF kind = "user" THEN "user_db" ELSE "group_db")
                    ELSE IF cached # Eligible(kind) THEN "clear"
                    ELSE AfterStatus(kind)]
    /\ UNCHANGED <<storeVars, cacheVars, mgrVars, cur, hand, counters, ret, taken>>
    /\ UNCHANGED extVars

\* user_dao.get_user_by_id / order_group_dao.get_group_by_id after a miss:
\* the query raises (the exception leaves _check_order_eligibility), or the
\* row's status is not the eligible one (return False), or it is kept for
\* the SET.
ProcessStatusRead(w, kind) ==
    /\ pc[w] = (IF kind = "user" THEN "user_db" ELSE "group_db")
    /\ \/ /\ cur' = [cur EXCEPT ![w].err = TRUE]
          /\ pc' = [pc EXCEPT ![w] = "clear"]
       \/ LET status == IF kind = "user" THEN users[StatusKey(w, kind)]
                        ELSE groups[StatusKey(w, kind)]
          IN  IF status # Eligible(kind)
              THEN /\ pc' = [pc EXCEPT ![w] = "clear"]
                   /\ UNCHANGED cur
              ELSE /\ pc' = [pc EXCEPT ![w] = IF kind = "user" THEN "user_set" ELSE "group_set"]
                   /\ cur' = [cur EXCEPT ![w].seen = status]
    /\ UNCHANGED <<storeVars, cacheVars, mgrVars, hand, counters, ret, taken>>
    /\ UNCHANGED extVars

\* cache_service.set_user_status / set_group_status of the status read.
ProcessStatusSet(w, kind) ==
    /\ pc[w] = (IF kind = "user" THEN "user_set" ELSE "group_set")
    /\ IF kind = "user"
       THEN /\ user_status_cache' =
                  RedisWrite(redis_client, user_status_cache,
                             [user_status_cache EXCEPT ![StatusKey(w, kind)] = cur[w].seen])
            /\ UNCHANGED group_status_cache
       ELSE /\ group_status_cache' =
                  RedisWrite(redis_client, group_status_cache,
                             [group_status_cache EXCEPT ![StatusKey(w, kind)] = cur[w].seen])
            /\ UNCHANGED user_status_cache
    /\ hint_by' = HintWrite(redis_client, kind, StatusKey(w, kind), 0)
    /\ pc' = [pc EXCEPT ![w] = AfterStatus(kind)]
    /\ cur' = [cur EXCEPT ![w].seen = NoCur.seen]
    /\ UNCHANGED <<storeVars, user_lock, order_processing, mgrVars, hand, counters,
                   ret, taken>>
    /\ UNCHANGED <<busVars, detVars, redisVars, dispVars, outstanding, order_writes>>

\* _check_order_eligibility, call by call; an ineligible order and an
\* exception go to the finally clause.
ProcessEligibility(w) ==
    \E kind \in {"user", "group"} :
        \/ ProcessStatusGet(w, kind)
        \/ ProcessStatusRead(w, kind)
        \/ ProcessStatusSet(w, kind)

\* _simulate_order_processing up to update_order_status: no update (return
\* True), an UPDATE that changed the row (updated_at at least), one that
\* changed nothing (no row with the id, or the row already had the values and
\* the timestamp: affected_rows = 0, return False), or one that raised.  The
\* WHERE clause names the id only.
ProcessUpdate(w) ==
    /\ pc[w] = "update"
    /\ \/ /\ MayKeep(cur[w])
          /\ cur' = [cur EXCEPT ![w].result = TRUE]
          /\ pc' = [pc EXCEPT ![w] = "clear"]
          /\ UNCHANGED orders
       \/ \E n \in SimulateOutcomes(cur[w]) :
            \/ /\ Len(status_log) + Cardinality({v \in Workers : pc[v] = "log"}) < MaxLog
               /\ orders[cur[w].id] # NoRow
               /\ orders' = UpdateOrderStatus(orders, cur[w].id, n.status, n.filled)
               /\ cur' = [cur EXCEPT ![w].new_status = n.status, ![w].new_filled = n.filled]
               /\ pc' = [pc EXCEPT ![w] = "log"]
            \/ /\ UpdateOrderStatus(orders, cur[w].id, n.status, n.filled) = orders
               /\ cur' = [cur EXCEPT ![w].result = FALSE]
               /\ pc' = [pc EXCEPT ![w] = "clear"]
               /\ UNCHANGED orders
       \/ /\ SimulateOutcomes(cur[w]) # {}
          /\ cur' = [cur EXCEPT ![w].err = TRUE]
          /\ pc' = [pc EXCEPT ![w] = "clear"]
          /\ UNCHANGED orders
    /\ UNCHANGED <<prio, users, groups, status_log, cacheVars, mgrVars, hand, counters,
                   ret, taken>>
    /\ UNCHANGED extVars

\* After a successful UPDATE: log_status_change inserts the log row (then the
\* user log and the event are written); the insert may raise.
ProcessLog(w) ==
    /\ pc[w] = "log"
    /\ \/ /\ status_log' = Append(status_log,
                                  [order_id |-> cur[w].id,
                                   old_status |-> cur[w].status, new_status |-> cur[w].new_status,
                                   old_filled |-> cur[w].filled, new_filled |-> cur[w].new_filled,
                                   worker |-> w])
          /\ order_queue' = RedisWrite(redis_client, order_queue,
                                PushOrderToQueue(order_queue,
                                    OrderEventOf(cur[w].id, cur[w].status, cur[w].new_status,
                                                 cur[w].new_filled)))
          /\ cur' = [cur EXCEPT ![w].result = TRUE]
       \/ /\ cur' = [cur EXCEPT ![w].err = TRUE]
          /\ UNCHANGED <<status_log, order_queue>>
    /\ pc' = [pc EXCEPT ![w] = "clear"]
    /\ UNCHANGED <<orders, prio, users, groups, cacheVars, mgrVars, hand, counters, ret, taken>>
    /\ UNCHANGED <<busVars, detVars, redis_client, dispVars, histVars>>

\* The finally clause, remove_order_processing(order_id): a plain DEL, then
\* the return: processed_count counts a True result, error_count an exception.
ProcessClear(w) ==
    /\ pc[w] = "clear"
    /\ order_processing' = RedisWrite(redis_client, order_processing,
                                      RemoveOrderProcessing(order_processing, cur[w].id))
    /\ counters' = [counters EXCEPT
                      ![w].processed = IF cur[w].result /\ ~cur[w].err THEN @ + 1 ELSE @,
                      ![w].errors = IF cur[w].err THEN @ + 1 ELSE @]
    /\ ret' = Returned(w, "process_order", OwnerOf(cur[w].id), cur[w].id,
                       cur[w].result /\ ~cur[w].err,
                       IF redis_client = "connected" /\ order_processing[cur[w].id] # None
                       THEN 1 ELSE 0,
                       FALSE)
    /\ pc' = [pc EXCEPT ![w] = "idle"]
    /\ cur' = [cur EXCEPT ![w] = NoCur]
    /\ UNCHANGED <<storeVars, user_lock, user_status_cache, group_status_cache, mgrVars,
                   hand, taken>>
    /\ UNCHANGED extVars

ProcessCheck(w) == ProcessCheckUpTo(w, MaxCalls)

\* OrderProcessor.process_order(order_data) as the loop of worker w calls it,
\* statement by statement, for one counted call more than MaxCalls.
ProcessOrderCall(w) ==
    \/ ProcessCheckUpTo(w, MaxCalls + 1)
    \/ ProcessMark(w)
    \/ ProcessEligibility(w)
    \/ ProcessUpdate(w)
    \/ ProcessLog(w)
    \/ ProcessClear(w)

\* Redis drops order:processing:<o> when its expiry (ttl = 300) passes.
ExpireOrderProcessing(o) ==
    /\ order_processing[o] # None
    /\ order_processing' = [order_processing EXCEPT ![o] = None]
    /\ UNCHANGED <<storeVars, user_lock, user_status_cache, group_status_cache, mgrVars,
                   procVars, ret, taken>>
    /\ UNCHANGED extVars

\* The connection to the Redis server breaks: the commands of the client
\* raise from now on.
TransportDown ==
    /\ redis_client = "connected"
    /\ redis_client' = "down"
    /\ UNCHANGED <<coreVars, busVars, detVars, order_queue, dispVars, histVars>>

\* RedisManager.close(): client and pool are set to None.
CloseClient ==
    /\ redis_client # "none"
    /\ redis_client' = "none"
    /\ UNCHANGED <<coreVars, busVars, detVars, order_queue, dispVars, histVars>>

\* RedisManager.get_client(): a client that is not None is returned as it
\* is.  On a None client _init_client assigns self.client and then pings:
\* the client is connected, or the ping raises out of get_client and leaves
\* the client assigned, its commands raising.
GetClient ==
    /\ IF redis_client = "none"
       THEN redis_client' \in {"connected", "down"}
       ELSE redis_client' = redis_client
    /\ UNCHANGED <<coreVars, busVars, detVars, order_queue, dispVars, histVars>>

\* The Redis server is back: the commands of the client work again (the
\* connection pool reconnects).
TransportUp ==
    /\ redis_client = "down"
    /\ redis_client' = "connected"
    /\ UNCHANGED <<coreVars, busVars, detVars, order_queue, dispVars, histVars>>

\* The public methods of the managers that reach the lock: the two lock
\* methods themselves, the lease, which tries the lock of every active user
\* in turn, and the refresh that fills the active set the lease goes over.
NextLock ==
    \/ \E w \in Workers : \E u \in Users : TryAcquireUserLockCall(w, u)
    \/ \E w \in Workers : \E u \in Users : ReleaseUserLockCall(w, u)
    \/ \E w \in Workers : \E t \in ManagerThreads : RefreshActiveUsersCall(w, t)
    \/ \E w \in Workers : GetNextUserOrdersCall(w)

SpecLock == Init /\ [][NextLock]_vars

\* The processors of all workers, each fed by get_next_user_order of its own
\* manager, with the cache's expiry and a connection to the cache that
\* breaks and comes back at any moment.
NextProcess ==
    \/ \E w \in Workers : GetNextUserOrderUpTo(w, MaxCalls)
    \/ \E w \in Workers : ProcessCheck(w)
    \/ \E w \in Workers : ProcessMark(w)
    \/ \E w \in Workers : ProcessEligibility(w)
    \/ \E w \in Workers : ProcessUpdate(w)
    \/ \E w \in Workers : ProcessLog(w)
    \/ \E w \in Workers : ProcessClear(w)
    \/ \E o \in OrderIds : ExpireOrderProcessing(o)
    \/ TransportDown
    \/ TransportUp

SpecProcess == Init /\ [][NextProcess]_vars

\* One worker whose processor is fed by both ways of taking orders from its
\* manager, get_next_user_order and the lease get_next_user_orders, while
\* the marks in the cache expire.
NextLeasedProcess ==
    \/ GetNextUserOrderUpTo(QueueWorker, MaxCalls)
    \/ GetNextUserOrdersCall(QueueWorker)
    \/ ProcessCheck(QueueWorker)
    \/ ProcessMark(QueueWorker)
    \/ ProcessEligibility(QueueWorker)
    \/ ProcessUpdate(QueueWorker)
    \/ ProcessLog(QueueWorker)
    \/ ProcessClear(QueueWorker)
    \/ \E o \in OrderIds : ExpireOrderProcessing(o)

SpecLeasedProcess == Init /\ [][NextLeasedProcess]_vars

\* ---------------------------------------------------------- the lease
\* The worker process w is killed (SIGKILL, crash): it runs no further step
\* and releases nothing; the keys it wrote stay in Redis until they expire.
Kill(w) ==
    /\ pc[w] # "dead"
    /\ pc' = [pc EXCEPT ![w] = "dead"]
    /\ UNCHANGED <<storeVars, cacheVars, mgrVars, cur, hand, counters, ret, taken>>
    /\ UNCHANGED extVars

\* The managers of the workers with the lease, the refresh of the active
\* users and the death of worker processes.
NextLease ==
    \/ \E w \in Workers : \E t \in ManagerThreads : pc[w] # "dead" /\ RefreshActiveUsersCall(w, t)
    \/ \E w \in Workers : GetNextUserOrdersCall(w)
    \/ \E w \in Workers : Kill(w)

SpecLease == Init /\ [][NextLease]_vars

\* The loop of a live worker (_run_monitor_loop) keeps calling
\* get_next_user_orders.
FairLease == \A w \in Workers : WF_vars(GetNextUserOrdersCall(w))

SpecLeaseFair == Init /\ [][NextLease]_vars /\ FairLease

\* The worker processes as MonitorWorker._run_monitor_loop drives their
\* managers: the only manager method the loop calls before it has a batch is
\* get_next_user_orders, and the loop processes and releases only a batch
\* the call returned.  Beside the workers the application changes the
\* statuses of users and groups in the store.
NextWorkerLoop ==
    \/ \E w \in Workers : GetNextUserOrdersCall(w)
    \/ \E w \in Workers : Kill(w)
    \/ \E u \in Users : \E st \in {USER_DISABLED, USER_ENABLED} : StoreUserStatusChange(u, st)
    \/ \E g \in Users : \E st \in {GROUP_CLOSED, GROUP_OPEN} : StoreGroupStatusChange(g, st)

SpecWorkerLoop == Init /\ [][NextWorkerLoop]_vars

SpecWorkerLoopFair == Init /\ [][NextWorkerLoop]_vars /\ FairLease

\* ----------------------------------------------------------- EventHandler
SetBus(t, rec) == [bus EXCEPT ![t] = rec]

\* The counters of EventHandler.stats, as functions of what happened.
TotalEvents == Cardinality({e \in EventIds : emitted[e] = "true"})
ProcessedEvents == Cardinality({e \in EventIds : outcome[e] = "processed"})
FailedEvents == Cardinality({e \in EventIds : outcome[e] \in {"failed", "timeout", "error"}})

\* Futures submitted to the executor that have not run yet.
PendingFutures(t) == {i \in 1..Len(bus[t].futures) : bus[t].futures[i].state = "pending"}

\* The futures a worker thread can hold: one per entry of a handler list for
\* each event.
MaxFutures == NumEvents * MaxRegs

\* register_handler(event_type, handler): the handler is appended to the
\* list of the type under self.lock, whether the handler runs or not and
\* whether the list holds the handler already.
RegisterHandler(ty, h) ==
    /\ host_calls.register < MaxRegs
    /\ host_calls' = [host_calls EXCEPT !.register = @ + 1]
    /\ event_handlers' = [event_handlers EXCEPT ![ty] = Append(@, h)]
    /\ UNCHANGED <<running, event_queue, unfinished_tasks, executor_shutdown, bus, emitted,
                   invoked, outcome, stop_pc, coreVars, detVars,
                   redisVars, dispVars, histVars>>

\* list.remove(handler): the first occurrence goes.
RemoveFirst(l, h) ==
    LET i == CHOOSE k \in 1..Len(l) : l[k] = h /\ \A j \in 1..(k - 1) : l[j] # h
    IN  SubSeq(l, 1, i - 1) \o SubSeq(l, i + 1, Len(l))

\* unregister_handler(event_type, handler): nothing changes when the handler
\* is not in the list.  When the list becomes empty its key is deleted: a
\* worker thread still iterating over the list object keeps the empty
\* object, whatever is registered next.
UnregisterHandler(ty, h) ==
    /\ IF \E k \in 1..Len(event_handlers[ty]) : event_handlers[ty][k] = h
       THEN LET l == RemoveFirst(event_handlers[ty], h)
            IN  /\ event_handlers' = [event_handlers EXCEPT ![ty] = l]
                /\ bus' = [t \in BusWorkers |->
                             IF l = <<>> /\ bus[t].pc = "submit" /\ TypeOf(bus[t].event) = ty
                             THEN [bus[t] EXCEPT !.stale = TRUE] ELSE bus[t]]
       ELSE UNCHANGED <<event_handlers, bus>>
    /\ UNCHANGED <<running, event_queue, unfinished_tasks, executor_shutdown, emitted,
                   invoked, outcome, stop_pc, host_calls, coreVars, detVars,
                   redisVars, dispVars, histVars>>

\* queue.Queue.put_nowait on a queue holding the items q: the items
\* afterwards and whether queue.Full was raised.
PutNowait_DropOldest(q, e) ==
    IF Len(q) >= QueueSize THEN [queue |-> Append(Tail(q), e), full |-> FALSE]
    ELSE [queue |-> Append(q, e), full |-> FALSE]

PutNowait(q, e) ==
    IF Len(q) >= QueueSize THEN [queue |-> q, full |-> TRUE]
    ELSE [queue |-> Append(q, e), full |-> FALSE]

\* emit_event(event), "if not self.running: return False", read without
\* the lock.
EmitTest(e) ==
    /\ emitted[e] = "new"
    /\ emitted' = [emitted EXCEPT ![e] = IF running THEN "tested" ELSE "not_running"]
    /\ UNCHANGED <<running, event_queue, unfinished_tasks, event_handlers, executor_shutdown,
                   bus, invoked, outcome, stop_pc, host_calls, coreVars, detVars,
                   redisVars, dispVars, histVars>>

\* emit_event, self.event_queue.put_nowait(event): queue.Full makes the call
\* return False.
EmitPut(e) ==
    /\ emitted[e] = "tested"
    /\ LET r == PutNowait(event_queue, e)
       IN  /\ event_queue' = r.queue
           /\ unfinished_tasks' = IF r.full THEN unfinished_tasks ELSE unfinished_tasks + 1
           /\ emitted' = [emitted EXCEPT ![e] = IF r.full THEN "full" ELSE "put"]
    /\ UNCHANGED <<running, event_handlers, executor_shutdown, bus, invoked, outcome,
                   stop_pc, host_calls, coreVars, detVars,
                   redisVars, dispVars, histVars>>

\* emit_event, stats['total_events'] += 1 under self.lock, then return True.
EmitCount(e) ==
    /\ emitted[e] = "put"
    /\ emitted' = [emitted EXCEPT ![e] = "true"]
    /\ UNCHANGED <<running, event_queue, unfinished_tasks, event_handlers, executor_shutdown,
                   bus, invoked, outcome, stop_pc, host_calls, coreVars, detVars,
                   redisVars, dispVars, histVars>>

\* EventHandler.emit_event(event)
EmitEvent(e) ==
    \/ EmitTest(e)
    \/ EmitPut(e)
    \/ EmitCount(e)

\* emit_event(e) has returned False.
EmitFalse(e) == emitted[e] \in {"not_running", "full"}

\* _worker_loop: "while self.running".
WorkerLoop(t) ==
    /\ bus[t].pc = "loop"
    /\ bus' = SetBus(t, [bus[t] EXCEPT !.pc = IF running THEN "get" ELSE "exited"])
    /\ UNCHANGED <<running, event_queue, unfinished_tasks, event_handlers, executor_shutdown,
                   emitted, invoked, outcome, stop_pc, host_calls, coreVars, detVars,
                   redisVars, dispVars, histVars>>

\* event_queue.get(timeout=1.0): queue.Empty on an empty queue (continue);
\* otherwise the thread holds the oldest event.
WorkerGet(t) ==
    /\ bus[t].pc = "get"
    /\ IF event_queue = <<>>
       THEN /\ bus' = SetBus(t, [bus[t] EXCEPT !.pc = "loop"])
            /\ UNCHANGED event_queue
       ELSE /\ event_queue' = Tail(event_queue)
            /\ bus' = SetBus(t, [bus[t] EXCEPT !.pc = "handlers", !.event = Head(event_queue)])
    /\ UNCHANGED <<running, unfinished_tasks, event_handlers, executor_shutdown, emitted,
                   invoked, outcome, stop_pc, host_calls, coreVars, detVars,
                   redisVars, dispVars, histVars>>

\* _process_event, "handlers = self.event_handlers.get(event.event_type, [])":
\* the call returns at once when no handler is registered for the type.
WorkerHandlers(t) ==
    /\ bus[t].pc = "handlers"
    /\ IF event_handlers[TypeOf(bus[t].event)] = <<>>
       THEN /\ bus' = SetBus(t, [bus[t] EXCEPT !.pc = "task_done"])
            /\ outcome' = [outcome EXCEPT ![bus[t].event] = "nohandler"]
       ELSE /\ bus' = SetBus(t, [bus[t] EXCEPT !.pc = "submit", !.idx = 1, !.stale = FALSE])
            /\ outcome' = outcome
    /\ UNCHANGED <<running, event_queue, unfinished_tasks, event_handlers, executor_shutdown,
                   emitted, invoked, stop_pc, host_calls, coreVars, detVars,
                   redisVars, dispVars, histVars>>

\* One turn of "for handler in handlers: executor.submit(...)": the list
\* object is the registered one and is read at the iterator's index.  submit
\* raises RuntimeError after the executor's shutdown; _process_event counts
\* the event as failed.
WorkerSubmit(t) ==
    /\ bus[t].pc = "submit"
    /\ LET e == bus[t].event
           handlers == IF bus[t].stale THEN <<>> ELSE event_handlers[TypeOf(e)]
       IN  IF bus[t].idx > Len(handlers)
           THEN /\ bus' = SetBus(t, [bus[t] EXCEPT !.pc = "wait"])
                /\ outcome' = outcome
           ELSE IF executor_shutdown
           THEN /\ bus' = SetBus(t, [bus[t] EXCEPT !.pc = "task_done"])
                /\ outcome' = [outcome EXCEPT ![e] = "error"]
           ELSE /\ bus' = SetBus(t, [bus[t] EXCEPT
                           !.idx = @ + 1,
                           !.futures = Append(@, [event |-> e, handler |-> handlers[bus[t].idx],
                                                  state |-> "pending"])])
                /\ outcome' = outcome
    /\ UNCHANGED <<running, event_queue, unfinished_tasks, event_handlers, executor_shutdown,
                   emitted, invoked, stop_pc, host_calls, coreVars, detVars,
                   redisVars, dispVars, histVars>>

\* The handlers registered: handler 1 returns, every other one raises.
Raises(h) == h # 1

\* An executor thread runs a submitted future: _safe_handle_event calls the
\* handler, which returns (True) or raises (False).
RunHandler(t, i) ==
    /\ i \in PendingFutures(t)
    /\ LET f == bus[t].futures[i]
       IN  /\ invoked' = [invoked EXCEPT ![f.event][f.handler] = @ + 1]
           /\ bus' = SetBus(t, [bus[t] EXCEPT !.futures[i].state =
                                   IF Raises(f.handler) THEN "failed" ELSE "done"])
    /\ UNCHANGED <<running, event_queue, unfinished_tasks, event_handlers, executor_shutdown,
                   emitted, outcome, stop_pc, host_calls, coreVars, detVars,
                   redisVars, dispVars, histVars>>

\* "for future in as_completed(futures, timeout=30)": every future of the
\* event completed (processed when one succeeded, failed otherwise), or the
\* timeout passed with a future still pending (TimeoutError: failed); the
\* pending futures stay with the executor.
WorkerWait(t) ==
    /\ bus[t].pc = "wait"
    /\ LET e == bus[t].event
           fs == bus[t].futures
           mine == {i \in 1..Len(fs) : fs[i].event = e}
           Keep(f) == f.state = "pending"
       IN  /\ outcome' = [outcome EXCEPT ![e] =
                 IF \E i \in mine : fs[i].state = "pending" THEN "timeout"
                 ELSE IF \E i \in mine : fs[i].state = "done" THEN "processed"
                 ELSE "failed"]
           /\ bus' = SetBus(t, [bus[t] EXCEPT !.pc = "task_done",
                                               !.futures = SelectSeq(fs, Keep)])
    /\ UNCHANGED <<running, event_queue, unfinished_tasks, event_handlers, executor_shutdown,
                   emitted, invoked, stop_pc, host_calls, coreVars, detVars,
                   redisVars, dispVars, histVars>>

\* event_queue.task_done(), back to the head of the loop.
WorkerTaskDone(t) ==
    /\ bus[t].pc = "task_done"
    /\ unfinished_tasks' = unfinished_tasks - 1
    /\ bus' = SetBus(t, [bus[t] EXCEPT !.pc = "loop", !.event = None, !.idx = 0,
                                        !.stale = FALSE])
    /\ UNCHANGED <<running, event_queue, event_handlers, executor_shutdown, emitted, invoked,
                   outcome, stop_pc, host_calls, coreVars, detVars,
                   redisVars, dispVars, histVars>>

\* EventHandler.start(): nothing when the handler runs already; otherwise
\* running becomes True and max_workers threads enter _worker_loop.  The
\* model follows NumBusWorkers worker threads: a start() is followed when no
\* worker thread of an earlier start is alive.
Start ==
    \/ /\ running
       /\ UNCHANGED vars
    \/ /\ ~running
       /\ host_calls.start < MaxStarts
       /\ \A t \in BusWorkers : bus[t].pc \in {"off", "exited"}
       /\ running' = TRUE
       /\ host_calls' = [host_calls EXCEPT !.start = @ + 1]
       /\ bus' = [t \in BusWorkers |-> [bus[t] EXCEPT !.pc = "loop"]]
       /\ stop_pc' = IF stop_pc = "stopped" THEN "init" ELSE stop_pc
       /\ UNCHANGED <<event_queue, unfinished_tasks, event_handlers, executor_shutdown,
                      emitted, invoked, outcome, coreVars, detVars,
                      redisVars, dispVars, histVars>>

\* EventHandler.stop(): nothing when the handler does not run; otherwise
\* "self.running = False".  One call of stop() is followed at a time.
StopBegin ==
    \/ /\ ~running
       /\ UNCHANGED vars
    \/ /\ running
       /\ stop_pc = "init"
       /\ running' = FALSE
       /\ stop_pc' = "join"
       /\ UNCHANGED <<event_queue, unfinished_tasks, event_handlers, executor_shutdown, bus,
                      emitted, invoked, outcome, host_calls, coreVars, detVars,
                      redisVars, dispVars, histVars>>

\* stop(): event_queue.join() returns when no task is unfinished.
StopJoin ==
    /\ stop_pc = "join"
    /\ unfinished_tasks = 0
    /\ stop_pc' = "threads"
    /\ UNCHANGED <<host_calls, running, event_queue, unfinished_tasks, event_handlers, executor_shutdown,
                   bus, emitted, invoked, outcome, coreVars, detVars,
                   redisVars, dispVars, histVars>>

\* stop(): thread.join(timeout) for every worker thread, each returning when
\* the thread ended or the timeout passed; then executor.shutdown begins.
StopThreads ==
    /\ stop_pc = "threads"
    /\ executor_shutdown' = TRUE
    /\ stop_pc' = "shutdown"
    /\ UNCHANGED <<host_calls, running, event_queue, unfinished_tasks, event_handlers, bus, emitted,
                   invoked, outcome, coreVars, detVars,
                   redisVars, dispVars, histVars>>

\* stop(): executor.shutdown(wait=True) returns when every submitted future
\* has run; worker_threads.clear(); stop returns.
StopReturn ==
    /\ stop_pc = "shutdown"
    /\ \A t \in BusWorkers : PendingFutures(t) = {}
    /\ stop_pc' = "stopped"
    /\ UNCHANGED <<host_calls, running, event_queue, unfinished_tasks, event_handlers, executor_shutdown,
                   bus, emitted, invoked, outcome, coreVars, detVars,
                   redisVars, dispVars, histVars>>

\* One turn of the loop of clear_queue(): event_queue.get_nowait() takes the
\* oldest event, which no worker thread will see; task_done is not called
\* for it.  The turn that finds the queue empty ends the call and changes
\* nothing.
ClearQueue ==
    /\ event_queue # <<>>
    /\ event_queue' = Tail(event_queue)
    /\ outcome' = [outcome EXCEPT ![Head(event_queue)] = "cleared"]
    /\ UNCHANGED <<running, unfinished_tasks, event_handlers, executor_shutdown, bus,
                   emitted, invoked, stop_pc, host_calls, coreVars, detVars,
                   redisVars, dispVars, histVars>>

NextBus ==
    \/ \E ty \in EventTypes : \E h \in Handlers : RegisterHandler(ty, h)
    \/ \E ty \in EventTypes : \E h \in Handlers : UnregisterHandler(ty, h)
    \/ \E e \in EventIds : EmitEvent(e)
    \/ \E t \in BusWorkers : WorkerLoop(t)
    \/ \E t \in BusWorkers : WorkerGet(t)
    \/ \E t \in BusWorkers : WorkerHandlers(t)
    \/ \E t \in BusWorkers : WorkerSubmit(t)
    \/ \E t \in BusWorkers : \E i \in 1..MaxFutures : RunHandler(t, i)
    \/ \E t \in BusWorkers : WorkerWait(t)
    \/ \E t \in BusWorkers : WorkerTaskDone(t)
    \/ Start
    \/ StopBegin
    \/ StopJoin
    \/ StopThreads
    \/ StopReturn
    \/ ClearQueue

SpecBus == Init /\ [][NextBus]_vars

\* The worker threads and the executor's threads keep running, and so does
\* the thread that called stop(); handlers return or raise.  Nothing obliges
\* the host to register, emit, start or stop.
FairBus ==
    /\ \A t \in BusWorkers :
          /\ WF_vars(WorkerLoop(t)) /\ WF_vars(WorkerGet(t)) /\ WF_vars(WorkerHandlers(t))
          /\ WF_vars(WorkerSubmit(t))
          /\ WF_vars(WorkerWait(t)) /\ WF_vars(WorkerTaskDone(t))
          /\ \A i \in 1..MaxFutures : WF_vars(RunHandler(t, i))
    /\ WF_vars(StopJoin) /\ WF_vars(StopThreads) /\ WF_vars(StopReturn)

SpecBusFair == Init /\ [][NextBus]_vars /\ FairBus

\* --------------------------------------------------- StatusChangeDetector
GroupIds == Users
Statuses == {0, 1}

\* The dicts id -> status a snapshot can hold for the ids in D.
StatusDicts(D) == UNION {[X -> Statuses] : X \in SUBSET D}

\* StatusSnapshot(user_statuses, group_statuses, timestamp)
Snapshots ==
    {[user_statuses |-> f, group_statuses |-> g] : f \in StatusDicts(Users),
                                                    g \in StatusDicts(GroupIds)}

Min(S) == CHOOSE x \in S : \A y \in S : x <= y

\* A dict is modelled by its mapping; where the code iterates over a dict
\* the order of its keys, which is the order of their insertion, is given
\* next to it.
\* The first loop of _detect_user_changes / _detect_group_changes, over
\* current.items() with the keys in the order `keys`: an entry for every id
\* whose old status (dict.get) is not None and differs from the current one.
RECURSIVE StatusChanges(_, _, _, _)
StatusChanges(keys, old, current, type) ==
    IF keys = <<>> THEN <<>>
    ELSE LET id == Head(keys)
             rest == StatusChanges(Tail(keys), old, current, type)
         IN  IF id \in DOMAIN old /\ old[id] # current[id]
             THEN <<[type |-> type, id |-> id, old_status |-> old[id],
                     new_status |-> current[id]]>> \o rest
             ELSE rest

\* The second loop, over set(current.keys()) - set(last.keys()): a set of
\* ints below 8 is iterated in ascending order.
RECURSIVE Added(_, _, _)
Added(S, current, type) ==
    IF S = {} THEN <<>>
    ELSE LET id == Min(S)
         IN  <<[type |-> type, id |-> id, status |-> current[id]]>> \o Added(S \ {id}, current, type)

\* A variant that also reports the ids that disappeared.
DetectDictChanges_Removed(old, current, keys, change_type, added_type) ==
    StatusChanges(keys, old, current, change_type)
        \o Added((DOMAIN current \ DOMAIN old) \cup (DOMAIN old \ DOMAIN current),
                 [id \in DOMAIN current \cup DOMAIN old |-> IF id \in DOMAIN current THEN current[id] ELSE old[id]],
                 added_type)

\* _detect_user_changes / _detect_group_changes
DetectDictChanges(old, current, keys, change_type, added_type) ==
    StatusChanges(keys, old, current, change_type)
        \o Added(DOMAIN current \ DOMAIN old, current, added_type)

\* detect_changes(current_snapshot): the list returned and last_snapshot
\* afterwards; user_keys and group_keys are the orders of the keys of the
\* two dicts of current_snapshot.
DetectChanges(last, current_snapshot, user_keys, group_keys) ==
    IF last = <<>>
    THEN [changes |-> <<>>, last_snapshot |-> <<current_snapshot>>]
    ELSE [changes |->
              DetectDictChanges(last[1].user_statuses, current_snapshot.user_statuses,
                                user_keys, "user_status_change", "user_added")
              \o DetectDictChanges(last[1].group_statuses, current_snapshot.group_statuses,
                                   group_keys, "group_status_change", "group_added"),
          last_snapshot |-> <<current_snapshot>>]

\* StatusChangeDetector.detect_changes called with any snapshot.
DetectChangesCall(current_snapshot, user_keys, group_keys) ==
    LET r == DetectChanges(last_snapshot, current_snapshot, user_keys, group_keys)
    IN  /\ changes' = r.changes
        /\ last_snapshot' = r.last_snapshot
        /\ UNCHANGED <<coreVars, busVars, monitor_snapshot, monitor_todo, redisVars,
                       dispVars, histVars>>

NextDetect ==
    \E current_snapshot \in Snapshots :
        \E user_keys \in Perms(DOMAIN current_snapshot.user_statuses) :
            \E group_keys \in Perms(DOMAIN current_snapshot.group_statuses) :
                DetectChangesCall(current_snapshot, user_keys, group_keys)

SpecDetect == Init /\ [][NextDetect]_vars

\* ------------------------------------------------------------ StatusMonitor
\* The fields the generated __init__ of the event dataclasses requires (those
\* without a default), and the keyword arguments the StatusMonitor passes.
\* The two status events have no field with a default.
BaseEventFields == {"event_id", "event_type", "timestamp", "source"}
UserStatusEventFields ==
    BaseEventFields \cup {"user_id", "username", "old_status", "new_status"}
GroupStatusEventFields ==
    BaseEventFields \cup {"group_id", "user_id", "group_name", "old_status", "new_status"}
UserStatusEventArgs ==
    {"event_id", "event_type", "timestamp", "user_id", "username", "old_status", "new_status"}
GroupStatusEventArgs ==
    {"event_id", "event_type", "timestamp", "group_id", "user_id", "group_name",
     "old_status", "new_status"}

\* The generated __init__ of a dataclass, called with the keyword arguments
\* args, raises TypeError when a field without a default is missing and when
\* a keyword names no field.
ConstructorRaises(required, optional, args) ==
    \/ required \ args # {}
    \/ args \ (required \cup optional) # {}

\* The methods of class CacheService.
CacheServiceMethods ==
    {"set_user_status", "get_user_status", "set_group_status", "get_group_status",
     "push_order_to_queue", "pop_order_from_queue", "get_queue_length",
     "set_order_processing", "remove_order_processing", "is_order_processing",
     "update_monitor_stats", "get_monitor_stats", "set_heartbeat", "get_active_workers"}

\* OrderGroupDAO.get_user_active_groups(user_id): the open groups of the user,
\* none when the user is not enabled in the store.
GetUserActiveGroups(u) ==
    {g \in GroupIds : g = u /\ groups[g] = GROUP_OPEN /\ users[u] = USER_ENABLED}

\* A variant that leaves the key as it is.
SetStatus_Skip(cache, id, status) == cache

\* CacheService.set_user_status / set_group_status on a client whose
\* commands work: SET of the key of `id` to `status`.
SetStatus(cache, id, status) == [cache EXCEPT ![id] = status]

\* The status _disable_user_monitoring / _enable_user_monitoring caches for a
\* row of get_user_active_groups.
HandlerGroupStatus(new_status, row_status) ==
    IF new_status = USER_DISABLED THEN GROUP_CLOSED ELSE row_status

\* UserStatusHandler.handle run without another step in between:
\* set_user_status, then the group statuses of the user's active groups are
\* cached as CLOSED (user disabled) or as stored.
UserStatusHandle(u, new_status, c) ==
    LET ucache1 == SetStatus(c.ucache, u, new_status)
        gs == GetUserActiveGroups(u)
    IN  [ucache |-> ucache1,
         gcache |-> [g \in DOMAIN c.gcache |->
                        IF g \in gs
                        THEN (IF new_status = USER_DISABLED THEN GROUP_CLOSED
                              ELSE IF new_status = USER_ENABLED THEN groups[g]
                              ELSE c.gcache[g])
                        ELSE c.gcache[g]]]

\* GroupStatusHandler.handle run without another step in between:
\* set_group_status; the rest only logs.
GroupStatusHandle(g, new_status, c) ==
    [c EXCEPT !.gcache = SetStatus(c.gcache, g, new_status)]

\* _handle_user_status_change as _process_changes runs it: the exception of
\* the event's constructor, or of the lookup of cache_service.lpush, is
\* caught by _process_changes before the event is pushed and dispatched.
\* c holds the two status caches, the list events and handler_calls.
HandleUserStatusChange(change, c) ==
    IF ConstructorRaises(UserStatusEventFields, {}, UserStatusEventArgs) THEN c
    ELSE IF "lpush" \notin CacheServiceMethods THEN c
    ELSE LET h == UserStatusHandle(change.id, change.new_status, c)
             e == [type |-> "user_status_change", id |-> change.id,
                   new_status |-> change.new_status]
         IN  [ucache |-> h.ucache, gcache |-> h.gcache,
              events |-> <<e>> \o c.events,
              calls |-> Append(c.calls, [call |-> 0, type |-> e.type, id |-> e.id,
                                         new_status |-> e.new_status, result |-> TRUE])]

\* _handle_group_status_change, likewise.
HandleGroupStatusChange(change, c) ==
    IF ConstructorRaises(GroupStatusEventFields, {}, GroupStatusEventArgs) THEN c
    ELSE IF "lpush" \notin CacheServiceMethods THEN c
    ELSE LET h == GroupStatusHandle(change.id, change.new_status, c)
             e == [type |-> "group_status_change", id |-> change.id,
                   new_status |-> change.new_status]
         IN  [ucache |-> h.ucache, gcache |-> h.gcache,
              events |-> <<e>> \o c.events,
              calls |-> Append(c.calls, [call |-> 0, type |-> e.type, id |-> e.id,
                                         new_status |-> e.new_status, result |-> TRUE])]

\* One turn of the loop of _process_changes: the handler of the change's
\* type; _handle_user_added and _handle_group_added SET the status of the
\* new id.
ProcessChange(change, c) ==
    IF change.type = "user_status_change" THEN HandleUserStatusChange(change, c)
    ELSE IF change.type = "group_status_change" THEN HandleGroupStatusChange(change, c)
    ELSE IF change.type = "user_added"
    THEN [c EXCEPT !.ucache = SetStatus(c.ucache, change.id, change.status)]
    ELSE IF change.type = "group_added"
    THEN [c EXCEPT !.gcache = SetStatus(c.gcache, change.id, change.status)]
    ELSE c

\* _take_snapshot, "SELECT id, username, status FROM users": the thread holds
\* the dict user_statuses built from the rows.  When the query raises the
\* pass ends with nothing changed.
MonitorUsers ==
    /\ monitor_snapshot = <<>> /\ monitor_todo = <<>>
    /\ monitor_snapshot' = <<users>>
    /\ UNCHANGED <<coreVars, busVars, last_snapshot, changes, monitor_todo, redisVars,
                   dispVars, histVars>>

\* _take_snapshot, the query of order_groups raises: _monitor_loop catches
\* the exception and the pass ends.
MonitorRaise ==
    /\ monitor_snapshot # <<>>
    /\ monitor_snapshot' = <<>>
    /\ UNCHANGED <<coreVars, busVars, last_snapshot, changes, monitor_todo, redisVars,
                   dispVars, histVars>>

\* _take_snapshot after "SELECT id, user_id, group_name, status FROM
\* order_groups": the user statuses read before and the group statuses of
\* the rows.
TakeSnapshot(user_statuses) == [user_statuses |-> user_statuses, group_statuses |-> groups]

\* A pass of _monitor_loop after the users were read: the query of
\* order_groups and detect_changes, which keeps the snapshot and returns the
\* changes _process_changes will go through.  Neither query has an ORDER BY:
\* the keys of the two dicts are in the order in which the store returned
\* the rows.
MonitorDiff ==
    /\ monitor_snapshot # <<>>
    /\ monitor_snapshot' = <<>>
    /\ \E user_keys \in Perms(DOMAIN monitor_snapshot[1]) : \E group_keys \in Perms(DOMAIN groups) :
          LET r == DetectChanges(last_snapshot, TakeSnapshot(monitor_snapshot[1]),
                                 user_keys, group_keys)
          IN  /\ changes' = r.changes
              /\ last_snapshot' = r.last_snapshot
              /\ monitor_todo' = r.changes
    /\ UNCHANGED <<coreVars, busVars, redisVars, dispVars, histVars>>

\* _process_changes, one turn of "for change in changes": the handler of the
\* change, each command of it a round trip to Redis of its own (the
\* handlers of the two added types issue one SET).
MonitorChange ==
    /\ monitor_todo # <<>>
    /\ LET change == Head(monitor_todo)
           c == ProcessChange(change, [ucache |-> user_status_cache,
                                       gcache |-> group_status_cache,
                                       events |-> events_queue,
                                       calls |-> handler_calls])
       IN  /\ user_status_cache' = RedisWrite(redis_client, user_status_cache, c.ucache)
           /\ group_status_cache' = RedisWrite(redis_client, group_status_cache, c.gcache)
           /\ events_queue' = RedisWrite(redis_client, events_queue, c.events)
           /\ handler_calls' = c.calls
           /\ hint_by' = IF change.type = "user_added"
                         THEN HintWrite(redis_client, "user", change.id, 0)
                         ELSE IF change.type = "group_added"
                         THEN HintWrite(redis_client, "group", change.id, 0)
                         ELSE hint_by
    /\ monitor_todo' = Tail(monitor_todo)
    /\ UNCHANGED <<storeVars, user_lock, order_processing, mgrVars, procVars, ret, taken,
                   busVars, last_snapshot, changes, monitor_snapshot, redisVars,
                   dispatch_call, ctlVars, outstanding, order_writes>>

\* One pass of StatusMonitor._monitor_loop: snapshot, diff, handlers.
MonitorPass ==
    \/ MonitorUsers
    \/ MonitorRaise
    \/ MonitorDiff
    \/ MonitorChange

\* One worker taking orders and processing them, at least two calls so that
\* one can follow a pass of the StatusMonitor, while another writer changes
\* the status of the user that owns order 1 and the StatusMonitor thread
\* makes its passes.
NextObserver ==
    \/ GetNextUserOrderUpTo(QueueWorker, MaxCalls)
    \/ ProcessOrderCall(QueueWorker)
    \/ \E st \in {USER_DISABLED, USER_ENABLED} : StoreUserStatusChange(QueueUser, st)
    \/ MonitorPass

SpecObserver == Init /\ [][NextObserver]_vars

\* ------------------------------------------------- CacheService on failure
\* The operations of CacheService; pop_order_from_queue with count = 1 and
\* with another count are told apart.
CacheOps ==
    {"set_user_status", "get_user_status", "set_group_status", "get_group_status",
     "push_order_to_queue", "pop_order_from_queue", "pop_order_from_queue_n",
     "get_queue_length", "set_order_processing", "remove_order_processing",
     "is_order_processing", "update_monitor_stats", "get_monitor_stats",
     "set_heartbeat", "get_active_workers"}

\* The operations that use self.redis.client themselves, outside the try
\* blocks of RedisManager: set_heartbeat evaluates client.time() for its
\* argument, get_active_workers calls client.keys(pattern).
UsesClientDirectly(op) == op \in {"set_heartbeat", "get_active_workers"}

\* What each operation returns when the RedisManager method it calls caught
\* the exception of the client.
FailureForm(op) ==
    IF op \in {"set_user_status", "set_group_status", "push_order_to_queue",
               "set_order_processing", "remove_order_processing", "is_order_processing",
               "update_monitor_stats", "set_heartbeat"} THEN "False"
    ELSE IF op \in {"get_user_status", "get_group_status", "pop_order_from_queue"} THEN "None"
    ELSE IF op = "get_queue_length" THEN "0"
    ELSE IF op = "get_monitor_stats" THEN "{}"
    ELSE "[]"

\* A CacheService operation while the client is None or its commands raise:
\* the value returned, or the exception that leaves the operation
\* (`raised`).  A None client raises AttributeError on any attribute.
CacheCallFailing(op, client) ==
    IF UsesClientDirectly(op)
    THEN [raised |-> TRUE, value |-> IF client = "none" THEN "AttributeError"
                                     ELSE "ConnectionError"]
    ELSE [raised |-> FALSE, value |-> FailureForm(op)]

\* Worker w calls operation op of cache_service while the transport fails.
\* ret keeps the operation, whether it raised, and in n whether the value
\* was the operation's failure form (1) or not (0).
CacheFailingCall(w, op) ==
    /\ redis_client # "connected"
    /\ pc[w] = "idle"
    /\ LET r == CacheCallFailing(op, redis_client)
       IN  ret' = Returned(w, op, 0, None, FALSE,
                           IF ~r.raised /\ r.value = FailureForm(op) THEN 1 ELSE 0, r.raised)
    /\ UNCHANGED <<storeVars, cacheVars, mgrVars, procVars, taken, busVars, detVars,
                   redisVars, dispVars, histVars>>

NextCache ==
    \/ \E w \in Workers : \E op \in CacheOps : CacheFailingCall(w, op)
    \/ TransportDown
    \/ TransportUp
    \/ CloseClient
    \/ GetClient

SpecCache == Init /\ [][NextCache]_vars

\* ------------------------------------------------------- EventDispatcher
\* The first dispatch call not made yet (0: all were made).
NextDispatchId ==
    IF \A k \in DispatchIds : dispatch_call[k].pc # "none" THEN 0
    ELSE CHOOSE k \in DispatchIds :
            /\ dispatch_call[k].pc = "none"
            /\ \A j \in DispatchIds : j < k => dispatch_call[j].pc # "none"

\* The handler of dispatch call k is submitted and has not returned.
HandlerRunning(k) == dispatch_call[k].pc \notin {"none", "done"}

\* What dispatch call k returns, once, to its caller.
DispatchResult(k, result) ==
    Append(handler_calls,
           [call |-> k, type |-> dispatch_call[k].type, id |-> dispatch_call[k].id,
            new_status |-> dispatch_call[k].new_status, result |-> result])

\* EventDispatcher.dispatch(event) of a UserStatusEvent or GroupStatusEvent,
\* called by any thread: the only suitable handler is the handler of the
\* event's type; its handle is submitted to the executor (5 threads, so the
\* handlers of the calls followed run side by side) and dispatch waits in
\* future.result(timeout=30).
DispatchSubmit(k, type, id, new_status) ==
    /\ k = NextDispatchId
    /\ dispatch_call' = [dispatch_call EXCEPT ![k] =
                            [NoDispatch EXCEPT
                               !.pc = IF type = "user_status_change" THEN "user_set"
                                      ELSE "group_set",
                               !.type = type, !.id = id, !.new_status = new_status]]
    /\ UNCHANGED <<coreVars, busVars, detVars, redisVars, events_queue, handler_calls,
                   ctlVars, histVars>>

\* The last statement of handle in call k is done (or the except clause is
\* entered): handle is about to return `result`; nothing has reached the
\* executor or dispatch yet.
HandlerDone(k, result) ==
    [dispatch_call EXCEPT ![k].pc = "return", ![k].groups = <<>>, ![k].result = result]

\* handle of call k returns to the executor, which completes the future:
\* dispatch, when it still waits in future.result, returns
\* success_count > 0, which is the result of its one handler.
DispatchReturn(k) ==
    /\ dispatch_call[k].pc = "return"
    /\ handler_calls' = IF dispatch_call[k].returned THEN handler_calls
                        ELSE DispatchResult(k, dispatch_call[k].result)
    /\ dispatch_call' = [dispatch_call EXCEPT ![k].pc = "done", ![k].returned = TRUE,
                                              ![k].result = FALSE]
    /\ UNCHANGED <<coreVars, busVars, detVars, redisVars, events_queue, ctlVars, histVars>>

\* future.result(timeout=30) raises TimeoutError while the handler of call k
\* runs: dispatch catches it and returns False (success_count = 0); the
\* handler goes on in its executor thread.
DispatchTimeout(k) ==
    /\ HandlerRunning(k)
    /\ ~dispatch_call[k].returned
    /\ handler_calls' = DispatchResult(k, FALSE)
    /\ dispatch_call' = [dispatch_call EXCEPT ![k].returned = TRUE]
    /\ UNCHANGED <<coreVars, busVars, detVars, redisVars, events_queue, ctlVars, histVars>>

\* UserStatusHandler.handle, first statement that writes:
\* set_user_status(user_id, new_status); RedisManager.set catches the
\* exception of a client that is not connected and returns False, which
\* handle does not look at.
DispatchUserSet(k) ==
    /\ dispatch_call[k].pc = "user_set"
    /\ user_status_cache' = RedisWrite(redis_client, user_status_cache,
                                       SetStatus(user_status_cache, dispatch_call[k].id,
                                                 dispatch_call[k].new_status))
    /\ hint_by' = HintWrite(redis_client, "user", dispatch_call[k].id, k)
    /\ dispatch_call' = [dispatch_call EXCEPT ![k].pc = "user_query"]
    /\ UNCHANGED <<storeVars, user_lock, order_processing, group_status_cache, mgrVars,
                   procVars, ret, taken, busVars, detVars, redisVars, events_queue,
                   handler_calls, ctlVars, outstanding, order_writes>>

\* _disable_user_monitoring / _enable_user_monitoring,
\* get_user_active_groups(user_id): the query raises and handle is about to
\* return False, or the handler holds the rows (ORDER BY og.id); without a
\* row handle is about to return True.
DispatchUserQuery(k) ==
    /\ dispatch_call[k].pc = "user_query"
    /\ \/ dispatch_call' = HandlerDone(k, FALSE)
       \/ LET gs == GetUserActiveGroups(dispatch_call[k].id)
              rows == [i \in 1..Cardinality(gs) |->
                          LET g == CHOOSE x \in gs : Cardinality({y \in gs : y < x}) = i - 1
                          IN  [id |-> g, status |-> groups[g]]]
          IN  IF rows = <<>>
              THEN dispatch_call' = HandlerDone(k, TRUE)
              ELSE dispatch_call' = [dispatch_call EXCEPT ![k].pc = "user_groups",
                                                          ![k].groups = rows]
    /\ UNCHANGED <<coreVars, busVars, detVars, redisVars, events_queue, handler_calls,
                   ctlVars, histVars>>

\* One turn of "for group in groups": set_group_status of the row's id, to
\* CLOSED (user disabled) or to the status of the row as it was read; after
\* the last row handle is about to return True.
DispatchUserGroup(k) ==
    /\ dispatch_call[k].pc = "user_groups"
    /\ LET group == Head(dispatch_call[k].groups)
           rest == Tail(dispatch_call[k].groups)
       IN  /\ group_status_cache' =
                 RedisWrite(redis_client, group_status_cache,
                            SetStatus(group_status_cache, group.id,
                                      HandlerGroupStatus(dispatch_call[k].new_status,
                                                         group.status)))
           /\ hint_by' = HintWrite(redis_client, "group", group.id, 0)
           /\ dispatch_call' = IF rest = <<>> THEN HandlerDone(k, TRUE)
                               ELSE [dispatch_call EXCEPT ![k].groups = rest]
    /\ UNCHANGED <<storeVars, user_lock, order_processing, user_status_cache, mgrVars,
                   procVars, ret, taken, busVars, detVars, redisVars, events_queue,
                   handler_calls, ctlVars, outstanding, order_writes>>

\* Dispatch call k is one of a UserStatusEvent of user u with new_status.
IsUserDispatch(k, u, new_status) ==
    /\ dispatch_call[k].type = "user_status_change"
    /\ dispatch_call[k].id = u /\ dispatch_call[k].new_status = new_status

\* EventDispatcher.dispatch(UserStatusEvent of user u with new_status)
DispatchUserStatus(u, new_status) ==
    \E k \in DispatchIds :
        \/ DispatchSubmit(k, "user_status_change", u, new_status)
        \/ IsUserDispatch(k, u, new_status) /\ DispatchUserSet(k)
        \/ IsUserDispatch(k, u, new_status) /\ DispatchUserQuery(k)
        \/ IsUserDispatch(k, u, new_status) /\ DispatchUserGroup(k)
        \/ IsUserDispatch(k, u, new_status) /\ DispatchReturn(k)
        \/ IsUserDispatch(k, u, new_status) /\ DispatchTimeout(k)

\* GroupStatusHandler.handle, first statement that writes:
\* set_group_status(group_id, new_status).
DispatchGroupSet(k) ==
    /\ dispatch_call[k].pc = "group_set"
    /\ group_status_cache' = RedisWrite(redis_client, group_status_cache,
                                        SetStatus(group_status_cache, dispatch_call[k].id,
                                                  dispatch_call[k].new_status))
    /\ hint_by' = HintWrite(redis_client, "group", dispatch_call[k].id, k)
    /\ dispatch_call' = [dispatch_call EXCEPT ![k].pc = "group_query"]
    /\ UNCHANGED <<storeVars, user_lock, order_processing, user_status_cache, mgrVars,
                   procVars, ret, taken, busVars, detVars, redisVars, events_queue,
                   handler_calls, ctlVars, outstanding, order_writes>>

\* _handle_group_closed / _handle_group_opened: the group's PENDING and
\* PARTIAL orders are read from the store and counted for the log; handle
\* is about to return True, or False when a query raised.
DispatchGroupQuery(k) ==
    /\ dispatch_call[k].pc = "group_query"
    /\ \E result \in BOOLEAN : dispatch_call' = HandlerDone(k, result)
    /\ UNCHANGED <<coreVars, busVars, detVars, redisVars, events_queue, handler_calls,
                   ctlVars, histVars>>

\* Dispatch call k is one of a GroupStatusEvent of group g with new_status.
IsGroupDispatch(k, g, new_status) ==
    /\ dispatch_call[k].type = "group_status_change"
    /\ dispatch_call[k].id = g /\ dispatch_call[k].new_status = new_status

\* EventDispatcher.dispatch(GroupStatusEvent of group g with new_status)
DispatchGroupStatus(g, new_status) ==
    \E k \in DispatchIds :
        \/ DispatchSubmit(k, "group_status_change", g, new_status)
        \/ IsGroupDispatch(k, g, new_status) /\ DispatchGroupSet(k)
        \/ IsGroupDispatch(k, g, new_status) /\ DispatchGroupQuery(k)
        \/ IsGroupDispatch(k, g, new_status) /\ DispatchReturn(k)
        \/ IsGroupDispatch(k, g, new_status) /\ DispatchTimeout(k)

\* StatusController.update_user_status / update_group_status(id, status), the
\* read of the row\* StatusController.update_user_status / update_group_status(id, status), the
\* read of the row: a row that has the status already makes the call return
\* True with nothing written; when the query raises the call returns False.
ControllerRead(kind, id, st) ==
    /\ controller.pc = "none"
    /\ LET old_status == IF kind = "user" THEN users[id] ELSE groups[id]
       IN  \/ controller' = [NoController EXCEPT !.last = "False"]
           \/ /\ old_status = st
              /\ controller' = [NoController EXCEPT !.last = "True"]
           \/ /\ old_status # st
              /\ controller' = [pc |-> "update", kind |-> kind, id |-> id, status |-> st,
                                last |-> "none"]
    /\ UNCHANGED <<coreVars, busVars, detVars, redisVars, events_queue, handler_calls,
                   dispatch_call, force_refresh, histVars>>

\* The UPDATE of the row through the DAO: it raises (return False), it
\* changes no row because another writer stored the same values in the same
\* second (affected_rows = 0, return False), or it writes the status.
ControllerUpdate ==
    /\ controller.pc = "update"
    /\ LET stored == IF controller.kind = "user" THEN users[controller.id]
                     ELSE groups[controller.id]
       IN  \/ /\ controller' = [NoController EXCEPT !.last = "False"]
              /\ UNCHANGED <<users, groups>>
           \/ /\ stored = controller.status
              /\ controller' = [NoController EXCEPT !.last = "False"]
              /\ UNCHANGED <<users, groups>>
           \/ /\ controller' = [controller EXCEPT !.pc = "cache"]
              /\ IF controller.kind = "user"
                 THEN /\ users' = [users EXCEPT ![controller.id] = controller.status]
                      /\ UNCHANGED groups
                 ELSE /\ groups' = [groups EXCEPT ![controller.id] = controller.status]
                      /\ UNCHANGED users
    /\ UNCHANGED <<orders, prio, status_log, cacheVars, mgrVars, procVars, ret, taken>>
    /\ UNCHANGED <<busVars, detVars, redisVars, events_queue, handler_calls,
                   dispatch_call, force_refresh, histVars>>

\* cache_service.set_user_status / set_group_status of the status written,
\* then return True.
ControllerCache ==
    /\ controller.pc = "cache"
    /\ IF controller.kind = "user"
       THEN /\ user_status_cache' =
                  RedisWrite(redis_client, user_status_cache,
                             [user_status_cache EXCEPT ![controller.id] = controller.status])
            /\ UNCHANGED group_status_cache
       ELSE /\ group_status_cache' =
                  RedisWrite(redis_client, group_status_cache,
                             [group_status_cache EXCEPT ![controller.id] = controller.status])
            /\ UNCHANGED user_status_cache
    /\ hint_by' = HintWrite(redis_client, controller.kind, controller.id, 0)
    /\ controller' = [NoController EXCEPT !.last = "True"]
    /\ UNCHANGED <<storeVars, user_lock, order_processing, mgrVars, procVars, ret, taken>>
    /\ UNCHANGED <<busVars, detVars, redisVars, events_queue, handler_calls,
                   dispatch_call, force_refresh, outstanding, order_writes>>

\* StatusController.update_user_status(u, st)
UpdateUserStatusCall(u, st) ==
    \/ ControllerRead("user", u, st)
    \/ controller.kind = "user" /\ controller.id = u /\ controller.status = st
          /\ ControllerUpdate
    \/ controller.kind = "user" /\ controller.id = u /\ controller.status = st
          /\ ControllerCache

\* StatusController.update_group_status(g, st)
UpdateGroupStatusCall(g, st) ==
    \/ ControllerRead("group", g, st)
    \/ controller.kind = "group" /\ controller.id = g /\ controller.status = st
          /\ ControllerUpdate
    \/ controller.kind = "group" /\ controller.id = g /\ controller.status = st
          /\ ControllerCache

\* StatusMonitor.force_refresh_cache, "SELECT id, status FROM users": the
\* call holds the rows, in the order the server returns them (the query has
\* no ORDER BY).  When the query raises the call ends with nothing changed.
ForceRefreshUsers ==
    /\ force_refresh.pc = "none"
    /\ \E todo \in Perms(Users) :
          force_refresh' = [pc |-> "users", rows |-> users, todo |-> todo]
    /\ UNCHANGED <<coreVars, busVars, detVars, redisVars, events_queue, handler_calls,
                   dispatch_call, controller, histVars>>

\* force_refresh_cache, one turn of a loop over the rows read:
\* set_user_status / set_group_status of the row's status.  The last group
\* ends the call.
ForceRefreshSet ==
    /\ force_refresh.pc \in {"users", "groups"}
    /\ force_refresh.todo # <<>>
    /\ LET id == Head(force_refresh.todo)
           rest == Tail(force_refresh.todo)
       IN  /\ IF force_refresh.pc = "users"
              THEN /\ user_status_cache' =
                         RedisWrite(redis_client, user_status_cache,
                                    [user_status_cache EXCEPT ![id] = force_refresh.rows[id]])
                   /\ UNCHANGED group_status_cache
              ELSE /\ group_status_cache' =
                         RedisWrite(redis_client, group_status_cache,
                                    [group_status_cache EXCEPT ![id] = force_refresh.rows[id]])
                   /\ UNCHANGED user_status_cache
           /\ hint_by' = HintWrite(redis_client,
                                   IF force_refresh.pc = "users" THEN "user" ELSE "group",
                                   id, 0)
           /\ force_refresh' = IF force_refresh.pc = "groups" /\ rest = <<>> THEN NoForce
                               ELSE [force_refresh EXCEPT !.todo = rest]
    /\ UNCHANGED <<storeVars, user_lock, order_processing, mgrVars, procVars, ret, taken>>
    /\ UNCHANGED <<busVars, detVars, redisVars, events_queue, handler_calls,
                   dispatch_call, controller, outstanding, order_writes>>

\* force_refresh_cache, "SELECT id, status FROM order_groups" after the last
\* user: the rows are held in the order the server returns them, or the
\* query raises and the call ends with the user statuses written.
ForceRefreshGroups ==
    /\ force_refresh.pc = "users"
    /\ force_refresh.todo = <<>>
    /\ \/ force_refresh' = NoForce
       \/ \E todo \in Perms(GroupIds) :
            force_refresh' = [pc |-> "groups", rows |-> groups, todo |-> todo]
    /\ UNCHANGED <<coreVars, busVars, detVars, redisVars, events_queue, handler_calls,
                   dispatch_call, controller, histVars>>

\* StatusMonitor.force_refresh_cache()
ForceRefreshCache ==
    \/ ForceRefreshUsers
    \/ ForceRefreshSet
    \/ ForceRefreshGroups

\* The dispatcher called, by any threads, with status events of one user
\* and of the user's group, the handlers running in the executor, while
\* other writers change the two statuses in the store, the StatusController
\* updates the user's status, and the connection to Redis breaks and comes
\* back.
NextDispatch ==
    \/ \E st \in {USER_DISABLED, USER_ENABLED} : DispatchUserStatus(QueueUser, st)
    \/ \E st \in {GROUP_CLOSED, GROUP_OPEN} : DispatchGroupStatus(QueueUser, st)
    \/ \E st \in {USER_DISABLED, USER_ENABLED} : StoreUserStatusChange(QueueUser, st)
    \/ \E st \in {GROUP_CLOSED, GROUP_OPEN} : StoreGroupStatusChange(QueueUser, st)
    \/ \E st \in {USER_DISABLED, USER_ENABLED} : UpdateUserStatusCall(QueueUser, st)
    \/ TransportDown
    \/ TransportUp

SpecDispatch == Init /\ [][NextDispatch]_vars

\* ---------------------------------------------------------- EventMonitor
\* The keyword arguments _parse_event passes to OrderStatusEvent, the
\* fields its generated __init__ requires and those with a default.
OrderStatusEventFields ==
    BaseEventFields \cup {"order_id", "user_id", "group_id", "old_status", "new_status"}
OrderStatusEventDefaults == {"filled_quantity", "price", "symbol"}
OrderStatusEventArgs ==
    {"event_id", "event_type", "timestamp", "order_id", "user_id", "group_id", "old_status",
     "new_status", "filled_quantity"}

\* One turn of EventMonitor._monitor_loop: pop_order_from_queue() takes the
\* rightmost element of order:queue (None on an empty list and on a client
\* whose command raised).  _parse_event catches the TypeError of the
\* constructor of OrderStatusEvent and returns None: nothing is dispatched.
EventMonitorTurn ==
    /\ ConstructorRaises(OrderStatusEventFields, OrderStatusEventDefaults, OrderStatusEventArgs)
    /\ order_queue' = RedisWrite(redis_client, order_queue,
                                 IF order_queue = <<>> THEN <<>>
                                 ELSE SubSeq(order_queue, 1, Len(order_queue) - 1))
    /\ UNCHANGED <<coreVars, busVars, detVars, redis_client, dispVars, histVars>>

\* ------------------------------------------- the registry under two threads
\* The manager of one worker whose get_next_user_order is called by one
\* thread while other threads of the process call refresh_active_users and
\* the statuses of the users change in the store.  get_next_user_order takes
\* its list of users from active_users and reaches get_user_queue(u), which
\* creates the queue when the registry has none, after a refresh of another
\* thread may have replaced the set.
NextRegistry ==
    \/ \E t \in ManagerThreads : RefreshActiveUsersCall(QueueWorker, t)
    \/ GetNextUserOrderCall(QueueWorker)
    \/ \E u \in Users : \E st \in {USER_DISABLED, USER_ENABLED} : StoreUserStatusChange(u, st)

SpecRegistry == Init /\ [][NextRegistry]_vars

\* ------------------------------------------------------- lock properties
\* C10: _try_acquire_user_lock returns true exactly when it made the caller
\* the holder: on an absent key it returns true and the key holds the caller,
\* on a present key it returns false and the key is unchanged.
C10_AcquireIffHolder ==
    [][\A w \in Workers : \A u \in Users :
          TryAcquireUserLockCall(w, u) =>
              IF user_lock[u] = None
              THEN ret'[w].ok /\ user_lock'[u] = w
              ELSE ~ret'[w].ok /\ user_lock' = user_lock]_vars

\* ---------------------------------------------------- processing properties
\* C2: an order row is updated in the store only by a worker that holds the
\* lock of the order's user at the moment of the update.
C2_UpdateUnderUserLock ==
    [][\A w \in Workers :
          (ProcessUpdate(w) /\ orders' # orders) => user_lock[OwnerOf(cur[w].id)] = w]_vars

\* Worker w is between setting the ProcessingMark of order o and clearing it.
InMark(w, o) == cur[w].id = o /\ pc[w] \in EligibilityPcs \cup {"update", "log", "clear"}

\* C3: for every order id at most one worker at a time is between setting the
\* order's ProcessingMark and clearing it.
C3_OneWorkerPerMark ==
    \A o \in OrderIds : \A w1, w2 \in Workers :
        (InMark(w1, o) /\ InMark(w2, o)) => w1 = w2

\* The statuses no transition leaves.
Terminal == {FILLED, CANCELLED}

\* C18: once the stored status of an order is terminal no update of a worker
\* changes the row, whenever the worker read its copy of the order.
C18_TerminalIsSink ==
    [][\A w \in Workers :
          (ProcessUpdate(w) /\ orders[cur[w].id].status \in Terminal)
              => orders'[cur[w].id] = orders[cur[w].id]]_vars

\* C19: an update a worker writes to a row whose filled_quantity is at most
\* the quantity leaves it at most the quantity.
C19_FilledAtMostQuantity ==
    [][\A w \in Workers :
          (ProcessUpdate(w) /\ DecLE(orders[cur[w].id].filled, Whole(Quantity)))
              => DecLE(orders'[cur[w].id].filled, Whole(Quantity))]_vars

\* A worker wrote a further partial fill of an order that was PARTIAL in its
\* copy, and the row holds it.
C19_Witness ==
    \E i \in 1..Len(status_log) :
        /\ status_log[i].old_status = PARTIAL /\ status_log[i].new_status = PARTIAL
        /\ ~DecLE(status_log[i].new_filled, status_log[i].old_filled)
        /\ orders[status_log[i].order_id].filled = status_log[i].new_filled

\* ------------------------------------------------------ lease properties
\* Worker w obtained a lease on user u: its last get_next_user_orders call
\* returned u with a batch.
Leased(w, u) == ret[w].op = "get_next_user_orders" /\ ret[w].u = u /\ hand[w] # <<>>

\* The aggregate of the processed_count of all OrderProcessors.
RECURSIVE SumProcessed(_)
SumProcessed(W) ==
    IF W = {} THEN 0
    ELSE LET w == CHOOSE x \in W : TRUE IN counters[w].processed + SumProcessed(W \ {w})

\* The status log holds the same transition of the same order twice.
LoggedTwice ==
    \E i, j \in 1..Len(status_log) :
        /\ i < j
        /\ status_log[i].order_id = status_log[j].order_id
        /\ status_log[i].old_status = status_log[j].old_status
        /\ status_log[i].new_status = status_log[j].new_status

\* C13: started with no lock key and every worker alive for ever, the workers
\* eventually have processed every order of every user exactly once: the
\* aggregate processed count reaches the number of orders, with no
\* transition of an order logged twice.
C13_AllProcessedOnce ==
    ((\A u \in Users : user_lock[u] = None) /\ [](\A w \in Workers : pc[w] # "dead"))
        => <>(SumProcessed(Workers) = NumOrders /\ ~LoggedTwice)

\* C25: no active user is starved: a user that is in the active set of a
\* worker, has orders to take and a free lock key is eventually leased by
\* some worker, as long as a live worker keeps calling get_next_user_orders
\* and the user still has orders, whatever the scores of the other users.
C25_NoStarvation ==
    \A u \in Users :
        (/\ \E w \in Workers : pc[w] # "dead" /\ u \in active_users[w]
         /\ ActiveOrders(u) # {}
         /\ user_lock[u] = None)
            ~> \/ \E w \in Workers : Leased(w, u)
               \/ \A w \in Workers : pc[w] = "dead"
               \/ ActiveOrders(u) = {}

\* User u can be leased by worker w: it is in w's active set, its lock key is
\* absent, and its queue in w's manager, refreshed from the store, hands out
\* an order.
Leasable(w, u) ==
    /\ u \in active_users[w]
    /\ user_lock[u] = None
    /\ LET queue == IF u \in DOMAIN user_queues[w] THEN user_queues[w][u] ELSE NewQueue
       IN  \A rows \in GetUserOrders(u) : GetNextOrder(RefreshOrders(queue, rows)).order # <<>>

\* C27: get_next_user_orders tries the users in descending priority score:
\* when two users can both be leased by the caller (free lock, takeable
\* orders, the store answering), the call returns a user, and not the one of
\* the two with the lower score.
C27_LeaseByScore ==
    [][\A w \in Workers :
          GetNextUserOrdersCall(w) =>
              \A u1, u2 \in Users :
                  (/\ Leasable(w, u1) /\ Leasable(w, u2)
                   /\ ~ScoreLE(user_priority_scores[w][u1], user_priority_scores[w][u2]))
                      => /\ ret'[w].u # None
                         /\ ret'[w].u # u2]_vars

\* C28: a worker that only calls get_next_user_orders in its loop eventually
\* obtains a lease on a user, as long as the store holds a user that is
\* enabled and has a PENDING or PARTIAL order in an open group: the call
\* refreshes the active-user set when the interval has passed.
C28_LoopLeasesActiveUser ==
    \A w \in Workers :
        (pc[w] # "dead" /\ ActiveUsersData # {})
            ~> \/ \E u \in Users : Leased(w, u)
               \/ pc[w] = "dead"
               \/ ActiveUsersData = {}

\* ------------------------------------------------------ event properties
Range(q) == {q[i] : i \in 1..Len(q)}

\* C14: emit_event on a full queue returns False and leaves the queue as it
\* was; an emit_event that returns True has appended its event; and an
\* event leaves the queue only into the hands of a worker thread or by a
\* call of clear_queue, so no emit_event drops an event without a False
\* return.
C14_OverflowReturnsFalse ==
    [][/\ \A e \in EventIds :
            /\ EmitPut(e) =>
                  /\ Len(event_queue) >= QueueSize
                         => (EmitFalse(e)' /\ event_queue' = event_queue)
                  /\ ~EmitFalse(e)' => event_queue' = Append(event_queue, e)
            /\ (EmitEvent(e) /\ EmitFalse(e)') => event_queue' = event_queue
            /\ (EmitEvent(e) /\ emitted'[e] = "true") => emitted[e] = "put"
       /\ \A e \in Range(event_queue) :
            e \notin Range(event_queue')
                => \/ \E t \in BusWorkers : bus[t].event = None /\ bus'[t].event = e
                   \/ ClearQueue]_vars

\* An emit_event on the running handler found the queue full and returned
\* False, and the queue still holds the events emitted before it.
C14_Witness ==
    \E e \in EventIds :
        /\ emitted[e] = "full"
        /\ Len(event_queue) = QueueSize
        /\ \A e2 \in Range(event_queue) : emitted[e2] \in {"put", "true"}

\* Handler h is in the list registered for the type of event e.
RegisteredFor(h, e) == h \in Range(event_handlers[TypeOf(e)])

\* Event e was dequeued by a worker thread, which has not finished with it.
Dequeued(e) == \E t \in BusWorkers : bus[t].event = e

\* C15: no handler is invoked twice for the same event, and once an event is
\* dequeued every handler registered for its type is eventually invoked for
\* it, unless the wait for the event's handlers times out or the handler is
\* unregistered.
C15_Delivery ==
    /\ [](\A e \in EventIds : \A h \in Handlers : invoked[e][h] <= 1)
    /\ \A e \in EventIds : \A h \in Handlers :
          (Dequeued(e) /\ RegisteredFor(h, e))
              ~> (invoked[e][h] >= 1 \/ outcome[e] = "timeout" \/ ~RegisteredFor(h, e))

\* stop() has set running to False and has not returned yet / has returned.
Stopping == stop_pc \in {"join", "threads", "shutdown"}
Stopped == stop_pc = "stopped"

\* No call of clear_queue has taken an event out of the queue.
NoneCleared == \A e \in EventIds : outcome[e] # "cleared"

\* C16: a stop() that has begun returns, as long as no clear_queue takes
\* events away from the worker threads; when it has returned the queue is
\* empty and every event that was enqueued went through _process_event; and
\* every emit_event made after stop began returns False.
C16_StopDrains ==
    /\ (Stopping /\ NoneCleared) ~> (Stopped \/ ~NoneCleared)
    /\ [][StopReturn => /\ event_queue = <<>>
                        /\ \A e \in EventIds :
                              emitted[e] \in {"put", "true"} => outcome[e] # "none"]_vars
    /\ [][\A e \in EventIds :
            (EmitTest(e) /\ (Stopping \/ Stopped)) => EmitFalse(e)']_vars

\* ---------------------------------------------------- detector properties
\* What the diff of the dicts `old` and `current` has to contain.
ExpectedChanges(old, current, change_type, added_type) ==
    {[type |-> change_type, id |-> id, old_status |-> old[id], new_status |-> current[id]] :
        id \in {i \in DOMAIN old \cap DOMAIN current : old[i] # current[i]}}
    \cup {[type |-> added_type, id |-> id, status |-> current[id]] : id \in DOMAIN current \ DOMAIN old}

\* C17: detect_changes(S2) after snapshot S1 returns exactly one
\* user_status_change(old, new) per user in both with a different status, one
\* user_added(status) per user only in S2, the same for groups, and nothing
\* else (nothing for unchanged or vanished ids); the first snapshot ever
\* seen yields no change.
C17_DetectChanges ==
    [][\A S2 \in {snap \in Snapshots : last_snapshot' = <<snap>>} :
        \A user_keys \in Perms(DOMAIN S2.user_statuses) :
        \A group_keys \in Perms(DOMAIN S2.group_statuses) :
          DetectChangesCall(S2, user_keys, group_keys) =>
              /\ IF last_snapshot = <<>> THEN changes' = <<>>
                 ELSE LET S1 == last_snapshot[1]
                          expected ==
                              ExpectedChanges(S1.user_statuses, S2.user_statuses,
                                              "user_status_change", "user_added")
                              \cup ExpectedChanges(S1.group_statuses, S2.group_statuses,
                                                   "group_status_change", "group_added")
                      IN  /\ Range(changes') = expected
                          /\ Len(changes') = Cardinality(expected)]_vars

\* A diff returned a status change and an added id while an id of the
\* previous snapshot has vanished, so fewer ids are known than before.
C17_Witness ==
    /\ \E i \in 1..Len(changes) : changes[i].type = "user_status_change"
    /\ \E i \in 1..Len(changes) : changes[i].type = "group_added"
    /\ DOMAIN last_snapshot[1].user_statuses # Users

\* The last pass of the StatusMonitor reported that user u became DISABLED,
\* _process_changes has gone through the changes of that pass, and u is still
\* DISABLED in the store.
DisableObserved(u) ==
    /\ users[u] = USER_DISABLED
    /\ monitor_todo = <<>>
    /\ \E i \in 1..Len(changes) :
          /\ changes[i].type = "user_status_change"
          /\ changes[i].id = u
          /\ changes[i].new_status = USER_DISABLED

\* C20: once a user was disabled in the store by another writer and the
\* StatusMonitor's next pass has diffed that change, no step updates a row of
\* orders of that user and no status-change row (with its OrderStatusChange
\* event) is written for one of the user's orders.
C20_NoUpdateAfterDisable ==
    [][\A o \in OrderIds :
          (orders[o] # NoRow /\ DisableObserved(OwnerOf(o))) =>
              /\ orders'[o] = orders[o]
              /\ \/ status_log' = status_log
                 \/ status_log'[Len(status_log')].order_id # o]_vars

\* The step of worker w in which update_order_status returned False
\* (affected_rows = 0), and the one in which it raised.
UpdateReturnsFalse(w) ==
    ProcessUpdate(w) /\ orders' = orders /\ ~cur'[w].result /\ ~cur'[w].err

UpdateRaises(w) == ProcessUpdate(w) /\ cur'[w].err

\* C21: when the store update of an order fails, by returning False or by
\* raising, no status-log row is appended and no event is pushed for the
\* attempt (process_order goes to its finally clause, not to the logging
\* step), and the worker's error_count is incremented: the attempt carries
\* the exception that process_order counts when it returns.
C21_FailedUpdateCounted ==
    [][\A w \in Workers :
          /\ (UpdateReturnsFalse(w) \/ UpdateRaises(w)) =>
                /\ status_log' = status_log
                /\ pc'[w] = "clear"
                /\ cur'[w].err
          /\ ProcessClear(w) =>
                (counters'[w].errors = counters[w].errors + 1) = cur[w].err]_vars

\* C22: every successful order update has exactly one order_status_logs row
\* and exactly one event on order:queue, and the rows and the events are in
\* the order of the updates: the i-th row of the log and the i-th event
\* pushed (the i-th from the right of the list) describe the same change.
C22_LogAndEventPerUpdate ==
    /\ Len(order_queue) = Len(status_log)
    /\ \A i \in 1..Len(status_log) :
          order_queue[Len(order_queue) + 1 - i] =
              OrderEventOf(status_log[i].order_id, status_log[i].old_status,
                           status_log[i].new_status, status_log[i].new_filled)

\* C23: a CacheService operation called while the client is not connected
\* or the transport fails does not raise and returns its failure form; this
\* holds for every operation, set_heartbeat and get_active_workers included.
C23_FailureFormNotRaise ==
    \A w \in Workers :
        ret[w].op \in CacheOps => ~ret[w].raised /\ ret[w].n = 1

\* Worker w is inside process_order after its set_order_processing call.
AfterMark(w) == pc[w] \in EligibilityPcs \cup {"update", "log", "clear"}

\* When process_order returns after its set_order_processing call (the
\* order was processed, left unchanged, found ineligible, or an exception
\* was raised), the key order:processing:<id> does not hold the worker.
C31_MarkClearedOnReturn ==
    [][\A w \in Workers :
          (AfterMark(w) /\ pc'[w] = "idle") =>
              order_processing'[cur[w].id] # w]_vars

\* C31: process_order issues the DEL of the mark on every path after its
\* set_order_processing call and then returns.  When the client executes
\* the command the key order:processing:<id> is absent at the return; when
\* the command raises inside RedisManager.delete the cache is as it was
\* before the return, a mark in it staying until its expiry.
C31_MarkClearedUnlessDeleteFails ==
    [][\A w \in Workers :
          (AfterMark(w) /\ pc'[w] = "idle") =>
              IF redis_client = "connected"
              THEN order_processing'[cur[w].id] = None
              ELSE order_processing' = order_processing]_vars

\* A process_order call that met an exception after its mark was set has
\* returned; its DEL removed the key and the mark of its order is absent.
C31_Witness ==
    \E w \in Workers :
        /\ ret[w].op = "process_order" /\ pc[w] = "idle"
        /\ counters[w].errors > 0
        /\ ret[w].n = 1
        /\ order_processing[ret[w].o] = None

\* C32: the processing mark is compare-and-set: set_order_processing on an
\* order marked by another worker leaves that worker's mark in place, and
\* remove_order_processing by a worker leaves a mark held by another worker
\* in place.
C32_MarkCompareAndSet ==
    [][\A w \in Workers :
          (ProcessMark(w) \/ ProcessClear(w)) =>
              (order_processing[cur[w].id] \notin {None, w} =>
                  order_processing'[cur[w].id] = order_processing[cur[w].id])]_vars

\* The status the store holds for the check of `kind` of worker w.
StoredStatus(w, kind) ==
    IF kind = "user" THEN users[StatusKey(w, kind)] ELSE groups[StatusKey(w, kind)]

\* C33: an eligibility check that misses the user-status (group-status)
\* cache and reads the row without an exception goes on to cache the status
\* it read, whether that status makes the order eligible or not, and the
\* SET leaves that status in the cache.
C33_MissCachesStoreStatus ==
    [][\A w \in Workers : \A kind \in {"user", "group"} :
          /\ (ProcessStatusRead(w, kind) /\ ~cur'[w].err) =>
                /\ pc'[w] = (IF kind = "user" THEN "user_set" ELSE "group_set")
                /\ cur'[w].seen = StoredStatus(w, kind)
          /\ (ProcessStatusSet(w, kind) /\ redis_client = "connected") =>
                IF kind = "user"
                THEN user_status_cache'[StatusKey(w, kind)] = cur[w].seen
                ELSE group_status_cache'[StatusKey(w, kind)] = cur[w].seen]_vars

\* The call of a status handler made in this step, if one was made.
Handled == Len(handler_calls') = Len(handler_calls) + 1
LastCall == handler_calls'[Len(handler_calls')]

\* The groups of user u in order_groups, whatever their status.
GroupsOwnedBy(u) == {g \in GroupIds : g = u}

\* C34: handling a user_status_change event with new status DISABLED for
\* user u (the cache reachable, handle returning True) leaves the cached
\* status of every group owned by u at CLOSED.
C34_DisableClosesGroups ==
    [][(Handled /\ redis_client = "connected"
          /\ LastCall.type = "user_status_change"
          /\ LastCall.new_status = USER_DISABLED /\ LastCall.result) =>
             \A g \in GroupsOwnedBy(LastCall.id) :
                 group_status_cache'[g] = GROUP_CLOSED]_vars

\* C35: in a pass of the StatusMonitor every user or group status change
\* detected is pushed on the list events and handed once to the handlers of
\* its kind, in the turn of _process_changes that handles the change and
\* before the turn of the next change.
C35_ChangePushedAndDispatched ==
    [][MonitorChange =>
          LET change == Head(monitor_todo)
          IN  change.type \in {"user_status_change", "group_status_change"} =>
                /\ Len(events_queue') = Len(events_queue) + 1
                /\ events_queue'[1] = [type |-> change.type, id |-> change.id,
                                       new_status |-> change.new_status]
                /\ Len(handler_calls') = Len(handler_calls) + 1
                /\ LET h == handler_calls'[Len(handler_calls')]
                   IN  h.type = change.type /\ h.id = change.id
                       /\ h.new_status = change.new_status]_vars

\* The status hint a dispatch call's event is about, after the step.
HintAfter(call) ==
    IF call.type = "user_status_change" THEN user_status_cache'[call.id]
    ELSE group_status_cache'[call.id]

\* The dispatch call that last wrote that hint with its event's new status,
\* after the step.
HintByAfter(call) ==
    IF call.type = "user_status_change" THEN hint_by'.user[call.id]
    ELSE hint_by'.group[call.id]

\* When dispatch of a user_status_change or group_status_change event
\* returns True, the cached status of the event's user (group) is the
\* event's new status.
C40_HintAtReturn ==
    [][(Handled /\ LastCall.result) => HintAfter(LastCall) = LastCall.new_status]_vars

\* C40: when dispatch of a user_status_change or group_status_change event
\* returns True, the cached status of the event's user (group) is the
\* event's new status if the SET of the call's handler was executed by the
\* client and no command executed after it, of any other writer or of the
\* handler itself, wrote the same key before the return.
C40_HintEqualsNewStatus ==
    [][(Handled /\ LastCall.result /\ HintByAfter(LastCall) = LastCall.call) =>
          HintAfter(LastCall) = LastCall.new_status]_vars

\* The second of two dispatch calls for the same user returned True while
\* the handler of the first was still running; its SET was the last write
\* of the user's key and the cache holds its new status, which is not the
\* status stored.
C40_Witness ==
    \E i \in 1..Len(handler_calls) :
        LET call == handler_calls[i]
        IN  /\ call.type = "user_status_change" /\ call.result
            /\ call.call = 2
            /\ HandlerRunning(1) /\ dispatch_call[1].type = "user_status_change"
            /\ dispatch_call[1].id = call.id
            /\ hint_by.user[call.id] = 2
            /\ user_status_cache[call.id] = call.new_status
            /\ users[call.id] # call.new_status

\* C36: when a refresh_active_users call that replaced the active set
\* completes, the registry user_queues holds no queue of a user outside the
\* new set, whatever lease calls created queues before it.
C36_RegistryWithinActiveSet ==
    [][\A w \in Workers :
          \A t \in ManagerThreads :
              RefreshSwap(w, t) => DOMAIN user_queues'[w] \subseteq active_users'[w]]_vars

\* The batch sizes a worker can ask for: none, fewer than, as many as and
\* more than max_concurrent, and the configured one.
BatchSizes == 0..(MaxConcurrent + 1) \cup {BatchSize}

\* The batch the lease of get_next_user_orders takes from queue q of user u
\* once it holds the lock: the refresh when it is due, then up to batch_size
\* get_next_order calls.
LeaseBatches(q, u, batch_size) ==
    {TakeBatch(q1, batch_size).orders : q1 \in RefreshChoices(q, u)}

\* C37: a lease returns at most max_concurrent minus the number of ids in
\* flight on the user's queue when it starts, for every batch_size.
C37_BatchWithinCapacity ==
    LET q == user_queues[QueueWorker][QueueUser]
    IN  \A n \in BatchSizes : \A batch \in LeaseBatches(q, QueueUser, n) :
            /\ Len(batch) <= MaxConcurrent - Cardinality(q.processing)
            /\ Len(batch) <= n

\* A queue with ids in flight and more orders pending than it has room for:
\* the batch of the configured size is cut at the remaining capacity.
C37_Witness ==
    LET q == user_queues[QueueWorker][QueueUser]
        batch == TakeBatch(q, BatchSize).orders
    IN  /\ q.processing # {}
        /\ Len(batch) > 0
        /\ Len(batch) = MaxConcurrent - Cardinality(q.processing)
        /\ Len(q.pending) > Len(batch)

\* Order o is in the in-flight set of its owner's queue in worker w's manager.
InFlight(w, o) ==
    /\ HasQueue(w, OwnerOf(o))
    /\ o \in user_queues[w][OwnerOf(o)].processing

\* Worker w is not working on order o: it is neither waiting in w's hand nor
\* inside process_order.
Finished(w, o) ==
    /\ \A i \in 1..Len(hand[w]) : hand[w][i].id # o
    /\ cur[w].id # o

\* A batch_size > 0 lease of worker w has yielded an order of user u: the
\* order is in the hand of w's loop.
Yielded(w, u) == \E i \in 1..Len(hand[w]) : OwnerOf(hand[w][i].id) = u

\* C38: an order id that was moved into a queue's in-flight set leaves the
\* set once the worker has finished the order, and so the queues of a user
\* do not stop yielding for ever: while a worker lives and the user is
\* enabled and owns a PENDING or PARTIAL order in an open group, the loop of
\* some worker is eventually yielded an order of the user.
C38_InFlightReleased ==
    /\ \A w \in Workers : \A o \in OrderIds :
          (InFlight(w, o) /\ Finished(w, o)) ~> ~InFlight(w, o)
    /\ \A u \in Users :
          ((\E w \in Workers : pc[w] # "dead") /\ u \in ActiveUsersData)
              ~> \/ \E w \in Workers : Yielded(w, u)
                 \/ \A w \in Workers : pc[w] = "dead"
                 \/ u \notin ActiveUsersData

\* C39: an order the manager of a worker handed out, and for which
\* mark_order_completed was not called since, is not handed out again by
\* that manager, also when refresh_active_users deleted the user's queue in
\* between and a later call created it anew.
C39_NoSecondHandOut ==
    [][\A w \in Workers :
          (hand[w] = <<>> /\ hand'[w] # <<>>) =>
              \A i \in 1..Len(hand'[w]) : hand'[w][i].id \notin outstanding[w]]_vars

\* ------------------------------------------------------- the whole system
Next ==
    \/ NextBus
    \/ NextDetect
    \/ NextObserver
    \/ NextCache
    \/ NextDispatch
    \/ NextRegistry
    \/ NextQueue
    \/ NextLock
    \/ NextProcess
    \/ \E w \in Workers : \E u \in Users : GetUserQueue(w, u)
    \/ \E w \in Workers : \E o \in OrderIds : MarkOrderCompletedCall(w, o, OwnerOf(o))
    \/ \E u \in Users : \E st \in {USER_DISABLED, USER_ENABLED} : StoreUserStatusChange(u, st)
    \/ \E g \in GroupIds : \E st \in {GROUP_CLOSED, GROUP_OPEN} : StoreGroupStatusChange(g, st)
    \/ \E u \in Users : \E st \in {USER_DISABLED, USER_ENABLED} : DispatchUserStatus(u, st)
    \/ \E g \in GroupIds : \E st \in {GROUP_CLOSED, GROUP_OPEN} : DispatchGroupStatus(g, st)
    \/ \E u \in Users : \E st \in {USER_DISABLED, USER_ENABLED} : UpdateUserStatusCall(u, st)
    \/ \E g \in GroupIds : \E st \in {GROUP_CLOSED, GROUP_OPEN} : UpdateGroupStatusCall(g, st)
    \/ ForceRefreshCache
    \/ \E w \in Workers : Kill(w)
    \/ \E w \in Workers : \E t \in ManagerThreads : RefreshActiveUsersCall(w, t)
    \/ \E o \in OrderIds : \E st \in OrderStatuses : \E f \in FilledInputs :
          StoreOrderChange(o, st, f)
    \/ \E u \in Users : \E st \in OrderStatuses : \E p \in 0..MaxPriority : CreateOrder(u, st, p)
    \/ EventMonitorTurn

Spec == Init /\ [][Next]_vars

====
